---------------------------- MODULE Spec2Model ----------------------------
(***************************************************************************)
(* Model of the decision cores     of the Intel Briefing collector:        *)
(*   - the V2EX lead radar (src/src/sensors/v2ex_radar.py) and the hit     *)
(*     list built from it (src/run_bounty_hunter.py);                      *)
(*   - the anti-hallucination link validator validate_grok_report          *)
(*     (src/fetch_unified_intel.py, src/src/intel_collector.py), the      *)
(*     liveness check verify_link it calls (src/src/utils/verifier.py),    *)
(*     and the callers of the LLM client fetch_grok_intel.                 *)
(*                                                                         *)
(* Text is a sequence of characters, each character a one-element string.  *)
(* A character outside ASCII is written by its code point: "u6025" is      *)
(* U+6025.  Comments give the literal of the source next to each table.    *)
(***************************************************************************)
EXTENDS Integers, Sequences, FiniteSets, TLC

VARIABLES
  \* --- one item scored as fetch_leads scores it (lines 89-101) ---
  title,              \* the item's title text
  description,        \* the item's description text
  found_tags,         \* tags returned by _analyze_content
  score,              \* score returned by _analyze_content
  emitted,            \* the leads fetch_leads appends for this item (0 or 1)
  score_pc,           \* "call" before the item is scored, "ret" after
  \* --- fetch_leads and the bounty hunter's main ---
  feeds,              \* what the two RSS feeds deliver, in RSS_FEEDS order
  days,               \* the days parameter of fetch_leads
  limit,              \* --limit of run_bounty_hunter.main
  all_leads,          \* the list fetch_leads returns
  high_value_leads,   \* the hit list main hands to generate_report
  leads_pc,           \* "call", "returned" (fetch_leads), "report" (main)
  \* --- validate_grok_report ---
  markdown_content,   \* the argument
  live,               \* the URLs for which verify_link answers True
  matches,            \* re.findall(link_pattern, markdown_content)
  match_i,            \* index of the next match the for loop takes
  validated_content,  \* the working text
  probes,             \* the URLs verify_link was called with, in call order
  validate_pc,        \* "call", "loop", "ret"
  \* --- verify_link ---
  head_outcome,       \* what httpx.head does: a status code or a failure
  get_outcome,        \* what httpx.get does: a status code or a failure
  requests,           \* the requests sent so far, in order
  response,           \* what the last request sent delivered
  is_valid,           \* what verify_link did: TRUE, FALSE, or "raised"
  verify_pc,          \* "call", "get" (HEAD answered, GET next), "ret"
  \* --- the callers of fetch_grok_intel ---
  grok_report,        \* the text fetch_grok_intel returned
  validator_input,    \* the text handed to the link validation, or None
  stored,             \* the text the caller keeps or returns, or None
  written,            \* the text written into a report file, or None
  grok_pc,            \* "call", then the name of the caller that ran
  \* --- fetch_grok_intel ---
  XAI_API_KEY,        \* the module's API key: a text, or None when unset
  post_outcome,       \* what httpx.post does: a response or a failure
  client_result,      \* what fetch_grok_intel returned
  client_pc,          \* "call", "post" (key present, request next), "ret"
  \* --- translate_to_chinese ---
  GEMINI_API_KEY,     \* the module's API key: a text, or None when unset
  source_text,        \* the argument text
  max_chars,          \* the argument max_chars
  api_outcomes,       \* what the API does at the first, second, third try
  attempt,            \* the attempts made so far
  translated,         \* what translate_to_chinese returned
  translate_pc,       \* "call", "loop", "ret"
  \* --- ChromeRadar.scan_opportunities ---
  pages,              \* what the two category pages deliver, in order
  scan_limit,         \* the limit parameter
  opportunities,      \* the list scan_opportunities returned
  chrome_pc,          \* "call", "ret"
  \* --- generate_report ---
  report_icons,       \* the icon written for each lead of the hit list
  report_pc           \* "call", "written"

vars == << title, description, found_tags, score, emitted, score_pc,
           feeds, days, limit, all_leads, high_value_leads, leads_pc,
           markdown_content, live, matches, match_i, validated_content,
           probes, validate_pc,
           head_outcome, get_outcome, requests, response, is_valid,
           verify_pc,
           grok_report, validator_input, stored, written, grok_pc,
           XAI_API_KEY, post_outcome, client_result, client_pc,
           GEMINI_API_KEY, source_text, max_chars, api_outcomes, attempt,
           translated, translate_pc,
           pages, scan_limit, opportunities, chrome_pc,
           report_icons, report_pc >>

score_vars == << title, description, found_tags, score, emitted, score_pc >>
leads_vars == << feeds, days, limit, all_leads, high_value_leads, leads_pc >>
validate_vars == << markdown_content, live, matches, match_i,
                    validated_content, probes, validate_pc >>
verify_vars == << head_outcome, get_outcome, requests, response, is_valid,
                  verify_pc >>
grok_vars == << grok_report, validator_input, stored, written, grok_pc >>
client_vars == << XAI_API_KEY, post_outcome, client_result, client_pc >>
translate_vars == << GEMINI_API_KEY, source_text, max_chars, api_outcomes,
                     attempt, translated, translate_pc >>
chrome_vars == << pages, scan_limit, opportunities, chrome_pc >>
report_vars == << report_icons, report_pc >>

---------------------------------------------------------------------------
(* Python str and list primitives over character sequences.                *)

\* s[i:j] with 0-based, end-exclusive Python indices already clamped.
Slice(s, i, j) == IF j <= i THEN << >> ELSE SubSeq(s, i + 1, j)

\* s.startswith(p, i) for a 0-based offset i.
StartsWithAt(s, p, i) ==
  /\ i + Len(p) <= Len(s)
  /\ \A k \in 1..Len(p) : s[i + k] = p[k]

\* p in s  (substring test of str.__contains__).
Contains(s, p) == \E i \in 0..(Len(s) - Len(p)) : StartsWithAt(s, p, i)

\* s.find(p, i): the least 0-based offset >= i where p occurs, or -1.
Find(s, p, i) ==
  LET hits == { k \in i..(Len(s) - Len(p)) : StartsWithAt(s, p, k) }
  IN  IF hits = {} THEN -1
      ELSE CHOOSE k \in hits : \A m \in hits : k <= m

UpperAZ == << "A","B","C","D","E","F","G","H","I","J","K","L","M",
              "N","O","P","Q","R","S","T","U","V","W","X","Y","Z" >>
LowerAZ == << "a","b","c","d","e","f","g","h","i","j","k","l","m",
              "n","o","p","q","r","s","t","u","v","w","x","y","z" >>

\* str.lower() of one character: ASCII capitals fold, every other character
\* of the model's alphabet (digits, punctuation, CJK, emoji) is unchanged.
LowerChar(c) ==
  IF \E k \in 1..26 : UpperAZ[k] = c
  THEN LowerAZ[CHOOSE k \in 1..26 : UpperAZ[k] = c]
  ELSE c

\* str.lower()
Lower(s) == [k \in 1..Len(s) |-> LowerChar(s[k])]

\* sep.join(parts)
RECURSIVE Join(_, _)
Join(parts, sep) ==
  IF parts = << >> THEN << >>
  ELSE IF Len(parts) = 1 THEN parts[1]
  ELSE parts[1] \o sep \o Join(Tail(parts), sep)

\* x in lst
InList(x, lst) == \E k \in 1..Len(lst) : lst[k] = x

---------------------------------------------------------------------------
(* V2EXRadar keyword tables, v2ex_radar.py lines 35-53.                    *)

\* 外包, 兼职, 有偿, 预算, 报价, 招, 急, 付费
MONEY_KEYWORDS ==
  << <<"u5916","u5305">>,
     <<"u517C","u804C">>,
     <<"u6709","u507F">>,
     <<"u9884","u7B97">>,
     <<"u62A5","u4EF7">>,
     <<"u62DB">>,
     <<"u6025">>,
     <<"u4ED8","u8D39">> >>

\* 求助, 帮忙, 不懂, 救命, 怎么做, 太难, 崩溃, 无法, 报错
PAIN_KEYWORDS ==
  << <<"u6C42","u52A9">>,
     <<"u5E2E","u5FD9">>,
     <<"u4E0D","u61C2">>,
     <<"u6551","u547D">>,
     <<"u600E","u4E48","u505A">>,
     <<"u592A","u96BE">>,
     <<"u5D29","u6E83">>,
     <<"u65E0","u6CD5">>,
     <<"u62A5","u9519">> >>

\* A variant of DESPERATION_KEYWORDS without the words of the other tables:
\* 在线等, 红包, 求大佬, 付费解决
DESPERATION_KEYWORDS_OWN ==
  << <<"u5728","u7EBF","u7B49">>,
     <<"u7EA2","u5305">>,
     <<"u6C42","u5927","u4F6C">>,
     <<"u4ED8","u8D39","u89E3","u51B3">> >>

\* 在线等, 有偿, 急, 救命, 红包, 崩溃, 求大佬, 付费解决
DESPERATION_KEYWORDS ==
  << <<"u5728","u7EBF","u7B49">>,
     <<"u6709","u507F">>,
     <<"u6025">>,
     <<"u6551","u547D">>,
     <<"u7EA2","u5305">>,
     <<"u5D29","u6E83">>,
     <<"u6C42","u5927","u4F6C">>,
     <<"u4ED8","u8D39","u89E3","u51B3">> >>

\* FPGA, Verilog, Python, 爬虫, 脚本, Web3, Solana, Rust, 图像, 视觉, 识别,
\* 抠图, Automation, Bot
TECH_KEYWORDS ==
  << <<"F","P","G","A">>,
     <<"V","e","r","i","l","o","g">>,
     <<"P","y","t","h","o","n">>,
     <<"u722C","u866B">>,
     <<"u811A","u672C">>,
     <<"W","e","b","3">>,
     <<"S","o","l","a","n","a">>,
     <<"R","u","s","t">>,
     <<"u56FE","u50CF">>,
     <<"u89C6","u89C9">>,
     <<"u8BC6","u522B">>,
     <<"u62A0","u56FE">>,
     <<"A","u","t","o","m","a","t","i","o","n">>,
     <<"B","o","t">> >>

\* The tag literals of _analyze_content: "💰Money", "🚑Pain", "🔥Urgent",
\* and the prefix "🛠️" of the tech tag.
TagMoney == <<"u1F4B0","M","o","n","e","y">>
TagPain == <<"u1F691","P","a","i","n">>
TagUrgent == <<"u1F525","U","r","g","e","n","t">>
TechPrefix == <<"u1F6E0","uFE0F">>

\* The score terms of _analyze_content.
MoneyWeight == 20
PainWeight == 10
UrgentWeight == 100
TechWeight == 30
TechBoost == 50

---------------------------------------------------------------------------
(* V2EXRadar._analyze_content, v2ex_radar.py lines 112-145.                *)

\* any(k in text for k in [k.lower() for k in table])
AnyKeyword(table, text) ==
  \E k \in 1..Len(table) : Contains(text, Lower(table[k]))

\* A variant of TechMatches that keeps the case-folded keywords.
TechMatchesFolded(text) ==
  LET hit == SelectSeq(TECH_KEYWORDS, LAMBDA t : Contains(text, Lower(t)))
  IN  [k \in 1..Len(hit) |-> Lower(hit[k])]

\* [t for t in self.TECH_KEYWORDS if t.lower() in text]: the matched tech
\* keywords as written in the table, in table order.
TechMatches(text) ==
  SelectSeq(TECH_KEYWORDS, LAMBDA t : Contains(text, Lower(t)))

\* f"🛠️{','.join(tech_matches)}"
TechTag(tech_matches) == TechPrefix \o Join(tech_matches, <<",">>)

\* A variant of FoundTags whose urgency check is an elif of the pain check.
FoundTagsUrgentElif(text) ==
  LET tags1 == IF AnyKeyword(MONEY_KEYWORDS, text) THEN <<TagMoney>> ELSE << >>
      tags3 == IF AnyKeyword(PAIN_KEYWORDS, text) THEN Append(tags1, TagPain)
               ELSE IF AnyKeyword(DESPERATION_KEYWORDS, text)
               THEN Append(tags1, TagUrgent) ELSE tags1
  IN  IF TechMatches(text) # << >>
      THEN Append(tags3, TechTag(TechMatches(text))) ELSE tags3

\* A variant of FoundTags that runs the urgency check first.
FoundTagsUrgentFirst(text) ==
  LET tags1 == IF AnyKeyword(DESPERATION_KEYWORDS, text)
               THEN <<TagUrgent>> ELSE << >>
      tags2 == IF AnyKeyword(MONEY_KEYWORDS, text)
               THEN Append(tags1, TagMoney) ELSE tags1
      tags3 == IF AnyKeyword(PAIN_KEYWORDS, text)
               THEN Append(tags2, TagPain) ELSE tags2
  IN  IF TechMatches(text) # << >>
      THEN Append(tags3, TechTag(TechMatches(text))) ELSE tags3

\* Lines 114-136: found_tags as built by the four checks, in code order.
FoundTags(text) ==
  LET tags1 == IF AnyKeyword(MONEY_KEYWORDS, text) THEN <<TagMoney>> ELSE << >>
      tags2 == IF AnyKeyword(PAIN_KEYWORDS, text)
               THEN Append(tags1, TagPain) ELSE tags1
      tags3 == IF AnyKeyword(DESPERATION_KEYWORDS, text)
               THEN Append(tags2, TagUrgent) ELSE tags2
      tech_matches == TechMatches(text)
  IN  IF tech_matches # << >>
      THEN Append(tags3, TechTag(tech_matches)) ELSE tags3

\* A variant of RawScore in which money, pain and urgency exclude each other
\* (an if / elif chain): only the first of them that matches is weighed.
RawScoreFirstOnly(text) ==
    (IF AnyKeyword(MONEY_KEYWORDS, text) THEN MoneyWeight
     ELSE IF AnyKeyword(PAIN_KEYWORDS, text) THEN PainWeight
     ELSE IF AnyKeyword(DESPERATION_KEYWORDS, text) THEN UrgentWeight ELSE 0)
  + (IF TechMatches(text) # << >> THEN TechWeight ELSE 0)

\* Lines 115-136: score as accumulated by the four checks.
RawScore(text) ==
    (IF AnyKeyword(MONEY_KEYWORDS, text) THEN MoneyWeight ELSE 0)
  + (IF AnyKeyword(PAIN_KEYWORDS, text) THEN PainWeight ELSE 0)
  + (IF AnyKeyword(DESPERATION_KEYWORDS, text) THEN UrgentWeight ELSE 0)
  + (IF TechMatches(text) # << >> THEN TechWeight ELSE 0)

\* A variant of Qualifies that accepts any tag, the tech tag included.
QualifiesAnyTag(tags) == tags # << >>

\* Line 139: the lead qualification test on found_tags.
Qualifies(tags) ==
  InList(TagMoney, tags) \/ InList(TagPain, tags) \/ InList(TagUrgent, tags)

\* A variant of AnalyzeContent without the boost of lines 141-142.
AnalyzeContentNoBoost(t, c) ==
  LET text == Lower(t \o c)
      tags == FoundTags(text)
  IN  IF Qualifies(tags)
      THEN [tags |-> tags, score |-> RawScore(text)]
      ELSE [tags |-> << >>, score |-> 0]

\* The whole of _analyze_content: the pair (tags, score) it returns.
AnalyzeContent(t, c) ==
  LET text == Lower(t \o c)
      tags == FoundTags(text)
  IN  IF Qualifies(tags)
      THEN [tags |-> tags,
            score |-> IF TechMatches(text) # << >>
                      THEN RawScore(text) + TechBoost ELSE RawScore(text)]
      ELSE [tags |-> << >>, score |-> 0]

---------------------------------------------------------------------------
(* V2EXRadar._clean_summary, v2ex_radar.py lines 147-150.                  *)

SummaryLimit == 200
Ellipsis == <<".", ".", ".">>

\* The end (1-based index of ">") of a match of '<[^<]+?>' that starts at
\* the 1-based index i, or 0 when there is none.  [^<]+? takes at least one
\* character other than "<" (a ">" included), then as few as possible.
TagEnd(s, i) ==
  LET ends == { j \in (i + 2)..Len(s) :
                  /\ s[j] = ">"
                  /\ \A k \in (i + 1)..(j - 1) : s[k] # "<" }
  IN  IF i <= Len(s) /\ s[i] = "<" /\ ends # {}
      THEN CHOOSE j \in ends : \A m \in ends : j <= m
      ELSE 0

\* re.sub('<[^<]+?>', '', s) from the 1-based index i on.
RECURSIVE StripTagsFrom(_, _)
StripTagsFrom(s, i) ==
  IF i > Len(s) THEN << >>
  ELSE IF TagEnd(s, i) > 0 THEN StripTagsFrom(s, TagEnd(s, i) + 1)
  ELSE <<s[i]>> \o StripTagsFrom(s, i + 1)

\* A variant of CleanSummary that cuts a long text without marking the cut.
CleanSummaryCutOnly(html_content) ==
  LET clean == StripTagsFrom(html_content, 1)
  IN  IF Len(clean) > SummaryLimit
      THEN Slice(clean, 0, SummaryLimit)
      ELSE clean

CleanSummary(html_content) ==
  LET clean == StripTagsFrom(html_content, 1)
  IN  IF Len(clean) > SummaryLimit
      THEN Slice(clean, 0, SummaryLimit) \o Ellipsis
      ELSE clean

---------------------------------------------------------------------------
(* fetch_leads lines 89-101: one item analysed and, when tagged, appended. *)

\* f"V2EX-{category}"
SourceOf(category) == <<"V","2","E","X","-">> \o category

\* A variant of LeadsOf without the test of line 91: every item is appended.
LeadsOfUntested(category, t, link, d, pub_date_str) ==
  << [source |-> SourceOf(category),
      title |-> t,
      url |-> link,
      summary |-> CleanSummary(d),
      posted_date |-> pub_date_str,
      tags |-> AnalyzeContent(t, d).tags,
      desperation_score |-> AnalyzeContent(t, d).score] >>

\* The leads the loop body appends for one item that reached the analysis:
\* none when _analyze_content returned no tags, else one Lead.
LeadsOf(category, t, link, d, pub_date_str) ==
  LET r == AnalyzeContent(t, d)
  IN  IF r.tags # << >>
      THEN << [source |-> SourceOf(category),
               title |-> t,
               url |-> link,
               summary |-> CleanSummary(d),
               posted_date |-> pub_date_str,
               tags |-> r.tags,
               desperation_score |-> r.score] >>
      ELSE << >>

---------------------------------------------------------------------------
(* Specification SpecScore: one item (title, description) scored as the    *)
(* loop body of fetch_leads scores it.                                     *)

\* Pieces of text the scored items are built from, with the categories
\* each piece matches.
ScoreFragments ==
  {
    <<"u5916","u5305">>,   \* 外包: Money
    <<"u6025">>,   \* 急: Money and Urgency
    <<"u6C42","u52A9">>,   \* 求助: Pain
    <<"u6551","u547D">>,   \* 救命: Pain and Urgency
    <<"u5728","u7EBF","u7B49">>,   \* 在线等: Urgency
    <<"P","y","t","h","o","n">>,   \* Python: TechMatch
    <<"u722C","u866B">>,   \* 爬虫: TechMatch
    <<"x">>,   \* x: no category
    <<"u4ED8","u8D39">>,   \* 付费: Money
    <<"u89E3","u51B3">>,   \* 解决: no category; 付费解决 is Urgency
    <<"R","O","B","O","T">> }   \* ROBOT: TechMatch (Bot) after case folding

\* The most pieces concatenated into a title.
MaxTitleFrags == 2

\* All concatenations of at most n pieces.
RECURSIVE Concats(_)
Concats(n) ==
  IF n = 0 THEN { << >> }
  ELSE Concats(n - 1) \cup { f \o t : f \in ScoreFragments, t \in Concats(n - 1) }

\* 急招兼职爬虫工程师
ScenarioTitle == <<"u6025","u62DB","u517C","u804C","u722C","u866B","u5DE5","u7A0B","u5E08">>
\* 预算5000，Python
ScenarioBody == <<"u9884","u7B97","5","0","0","0","uFF0C","P","y","t","h","o","n">>

ScoreTitles == Concats(MaxTitleFrags) \cup {ScenarioTitle}
ScoreBodies == ScoreFragments \cup { << >>, ScenarioBody }

\* "jobs", one key of RSS_FEEDS
CategoryJobs == <<"j","o","b","s">>
\* "global", the other key of RSS_FEEDS
CategoryGlobal == <<"g","l","o","b","a","l">>

ScoreIdle ==
  /\ title = << >> /\ description = << >> /\ found_tags = << >>
  /\ score = 0 /\ emitted = << >> /\ score_pc = "idle"

LeadsIdle ==
  /\ feeds = << >> /\ days = 0 /\ limit = 0 /\ all_leads = << >>
  /\ high_value_leads = << >> /\ leads_pc = "idle"

ValidateIdle ==
  /\ markdown_content = << >> /\ live = {} /\ matches = << >>
  /\ match_i = 0 /\ validated_content = << >> /\ probes = << >>
  /\ validate_pc = "idle"

\* Python's None where a text is expected
None == << "None" >>

\* No request was sent, nothing came back.
NoResponse == [kind |-> "none"]

VerifyIdle ==
  /\ head_outcome = NoResponse /\ get_outcome = NoResponse
  /\ requests = << >> /\ response = NoResponse
  /\ is_valid = "none" /\ verify_pc = "idle"

GrokIdle ==
  /\ grok_report = << >> /\ validator_input = None /\ stored = None
  /\ written = None /\ grok_pc = "idle"

ClientIdle ==
  /\ XAI_API_KEY = None /\ post_outcome = NoResponse
  /\ client_result = None /\ client_pc = "idle"

TranslateIdle ==
  /\ GEMINI_API_KEY = None /\ source_text = << >> /\ max_chars = 0
  /\ api_outcomes = << >> /\ attempt = 0 /\ translated = None
  /\ translate_pc = "idle"

ChromeIdle ==
  /\ pages = << >> /\ scan_limit = 0
  /\ opportunities = << >> /\ chrome_pc = "idle"

ReportIdle == report_icons = << >> /\ report_pc = "idle"

InitScore ==
  /\ title \in ScoreTitles
  /\ description \in ScoreBodies
  /\ found_tags = << >> /\ score = 0 /\ emitted = << >>
  /\ score_pc = "call"
  /\ LeadsIdle /\ ValidateIdle /\ VerifyIdle /\ GrokIdle
  /\ ClientIdle /\ TranslateIdle /\ ChromeIdle /\ ReportIdle

\* fetch_leads lines 89-101 for the item (title, description).
ScoreItem ==
  /\ score_pc = "call"
  /\ found_tags' = AnalyzeContent(title, description).tags
  /\ score' = AnalyzeContent(title, description).score
  /\ emitted' = LeadsOf(CategoryJobs, title, << >>, description, << >>)
  /\ score_pc' = "ret"
  /\ UNCHANGED << title, description >>
  /\ UNCHANGED leads_vars /\ UNCHANGED validate_vars
  /\ UNCHANGED verify_vars /\ UNCHANGED grok_vars
  /\ UNCHANGED << client_vars, translate_vars, chrome_vars, report_vars >>

NextScore == ScoreItem

SpecScore == InitScore /\ [][NextScore]_vars

---------------------------------------------------------------------------
(* Specification SpecSummary: one item with a long or marked-up body goes  *)
(* through the loop body of fetch_leads.                                   *)

\* Pieces the head of a body is built from.
BodyFragments ==
  { <<"<","b",">">>, <<"<","/","b",">">>, <<"x">>, <<"<">>, <<"a",">">>,
    <<"u6025">> }      \* 急: Money and Urgency

\* The most pieces at the head of a body.
MaxBodyFrags == 2

RECURSIVE BodyHeads(_)
BodyHeads(n) ==
  IF n = 0 THEN { << >> }
  ELSE BodyHeads(n - 1) \cup
       { f \o t : f \in BodyFragments, t \in BodyHeads(n - 1) }

\* n times the character "y"
Padding(n) == [k \in 1..n |-> "y"]

\* Bodies: a head, then no padding or padding up to about the limit.
SummaryBodies ==
  { h \o Padding(n) : h \in BodyHeads(MaxBodyFrags),
                      n \in { 0, SummaryLimit - 1, SummaryLimit } }

\* 外包 (Money: every body gives a Lead) and x (the body decides)
SummaryTitles == { <<"u5916","u5305">>, <<"x">> }

InitSummary ==
  /\ title \in SummaryTitles
  /\ description \in SummaryBodies
  /\ found_tags = << >> /\ score = 0 /\ emitted = << >>
  /\ score_pc = "call"
  /\ LeadsIdle /\ ValidateIdle /\ VerifyIdle /\ GrokIdle
  /\ ClientIdle /\ TranslateIdle /\ ChromeIdle /\ ReportIdle

SpecSummary == InitSummary /\ [][NextScore]_vars

---------------------------------------------------------------------------
(* V2EXRadar.fetch_leads, v2ex_radar.py lines 58-110.                      *)

\* What item.find(name) and .text deliver: no such element ("absent": find
\* returns None and .text raises), an element without text ("none"), or an
\* element with text.
Absent == [kind |-> "absent"]
NoText == [kind |-> "none"]
Text(s) == [kind |-> "text", text |-> s]

\* item.find(name).text or ""   (for an element that is present)
TextOrEmpty(e) == IF e.kind = "text" THEN e.text ELSE << >>

\* A publication date is written as one token: "d0", "d1", "d2" stand for a
\* string in the format "%a, %d %b %Y %H:%M:%S %z" lying that many whole
\* days before now; any other string makes strptime raise.
DateTokens == << "d0", "d1", "d2" >>

\* strptime(pub_date_str, ...) succeeds
DateParses(pub_date_str) ==
  /\ Len(pub_date_str) = 1
  /\ \E k \in 1..Len(DateTokens) : DateTokens[k] = pub_date_str[1]

\* (now - pub_date).days for a string that parses
AgeDays(pub_date_str) ==
  (CHOOSE k \in 1..Len(DateTokens) : DateTokens[k] = pub_date_str[1]) - 1

\* Lines 79-86: the item is skipped by the age filter.
TooOld(pub_date_str, d) ==
  DateParses(pub_date_str) /\ AgeDays(pub_date_str) > d

\* Lines 73-101: the leads appended while looping over the items of one
\* feed.  An item lacking one of the four elements raises AttributeError,
\* which leaves the loop for the except clause of line 103.
RECURSIVE ItemLeads(_, _, _)
ItemLeads(category, items, d) ==
  IF items = << >> THEN << >>
  ELSE LET item == Head(items)
       IN  IF \/ item.title = Absent \/ item.link = Absent
              \/ item.description = Absent \/ item.pubDate = Absent
           THEN << >>
           ELSE IF TooOld(TextOrEmpty(item.pubDate), d)
           THEN ItemLeads(category, Tail(items), d)
           ELSE LeadsOf(category, TextOrEmpty(item.title),
                        TextOrEmpty(item.link), TextOrEmpty(item.description),
                        TextOrEmpty(item.pubDate))
                \o ItemLeads(category, Tail(items), d)

\* A variant of FeedLeads in which a feed that fails while its items are
\* read contributes nothing.
FeedLeadsAllOrNothing(category, feed, d) ==
  IF feed.kind = "ok"
     /\ \A k \in 1..Len(feed.items) :
          /\ feed.items[k].title # Absent /\ feed.items[k].link # Absent
          /\ feed.items[k].description # Absent
          /\ feed.items[k].pubDate # Absent
  THEN ItemLeads(category, feed.items, d) ELSE << >>

\* Lines 63-104: one feed.  A failed request (raise_for_status) or a
\* document ET.fromstring rejects raises before any item is read.
FeedLeads(category, feed, d) ==
  IF feed.kind = "ok" THEN ItemLeads(category, feed.items, d) ELSE << >>

\* A variant of InsertDesc that puts x before the leads of equal score (an
\* ascending sort that is then reversed).
RECURSIVE InsertDescBeforeTies(_, _)
InsertDescBeforeTies(sorted, x) ==
  IF sorted = << >> THEN <<x>>
  ELSE IF Head(sorted).desperation_score > x.desperation_score
  THEN <<Head(sorted)>> \o InsertDescBeforeTies(Tail(sorted), x)
  ELSE <<x>> \o sorted

\* list.sort(key=lambda x: x.desperation_score, reverse=True): the place of
\* lead x in the sorted list: after every lead that scores at least as much.
RECURSIVE InsertDesc(_, _)
InsertDesc(sorted, x) ==
  IF sorted = << >> THEN <<x>>
  ELSE IF Head(sorted).desperation_score >= x.desperation_score
  THEN <<Head(sorted)>> \o InsertDesc(Tail(sorted), x)
  ELSE <<x>> \o sorted

\* The stable descending sort of line 107 (and of run_bounty_hunter line 76).
RECURSIVE SortDesc(_)
SortDesc(leads) ==
  IF leads = << >> THEN << >>
  ELSE InsertDesc(SortDesc(SubSeq(leads, 1, Len(leads) - 1)),
                  leads[Len(leads)])

\* Lines 60-104: all_leads before the sort, feeds taken in RSS_FEEDS order.
CollectLeads(fs, d) ==
  FeedLeads(CategoryGlobal, fs[1], d) \o FeedLeads(CategoryJobs, fs[2], d)

\* The whole of fetch_leads.
FetchLeads(fs, d) == SortDesc(CollectLeads(fs, d))

---------------------------------------------------------------------------
(* run_bounty_hunter.main, lines 72-77.                                    *)

\* lst[:n] for n >= 0
Truncate(lst, n) == SubSeq(lst, 1, IF n < Len(lst) THEN n ELSE Len(lst))

\* [l for l in leads if l.desperation_score > 0], sorted again, cut to limit
HighValueLeads(leads, n) ==
  Truncate(SortDesc(SelectSeq(leads, LAMBDA l : l.desperation_score > 0)), n)

---------------------------------------------------------------------------
(* Specification SpecLeads: fetch_leads over two feeds, then main's cut.   *)

\* The items the feeds are built from.
Item(t, d, p) ==
  [title |-> t, link |-> Text(<<"u">>), description |-> d, pubDate |-> p]

FeedItems ==
  { Item(Text(<<"u5916","u5305">>), Text(<<"<","b",">","x">>),
         Text(<<"d0">>)),                              \* 外包: Money, today
    Item(Text(<<"u62DB">>), NoText, Text(<<"?">>)),   \* 招: Money, date unparsable
    Item(Text(<<"u5728","u7EBF","u7B49">>),
         Text(<<"P","y","t","h","o","n">>),
         Text(<<"d1">>)),                              \* 在线等 Python, one day old
    Item(Absent, NoText, Text(<<"d0">>)),              \* no <title> element
    Item(NoText, NoText, NoText) }                     \* every element empty

\* The most items the two feeds deliver together.
MaxItems == 3
\* The largest days parameter.
MaxDays == 1
\* The largest --limit.
MaxLimit == 2

ItemSeqs == UNION { [1..k -> FeedItems] : k \in 0..MaxItems }

Ok(items) == [kind |-> "ok", items |-> items]
FeedErrors == { [kind |-> "http_error"], [kind |-> "xml_error"] }

FeedPairs ==
     UNION { { << Ok(SubSeq(s, 1, k)), Ok(SubSeq(s, k + 1, Len(s))) >> :
                 k \in 0..Len(s) } : s \in ItemSeqs }
  \cup { << e, Ok(s) >> : e \in FeedErrors, s \in ItemSeqs }
  \cup { << Ok(s), e >> : e \in FeedErrors, s \in ItemSeqs }
  \cup { << e, f >> : e \in FeedErrors, f \in FeedErrors }

InitLeads ==
  /\ feeds \in FeedPairs
  /\ days \in 0..MaxDays
  /\ limit = 0 /\ all_leads = << >> /\ high_value_leads = << >>
  /\ leads_pc = "call"
  /\ ScoreIdle /\ ValidateIdle /\ VerifyIdle /\ GrokIdle
  /\ ClientIdle /\ TranslateIdle /\ ChromeIdle /\ ReportIdle

\* leads = v2ex.fetch_leads(days=args.days)
FetchLeadsCall ==
  /\ leads_pc = "call"
  /\ all_leads' = FetchLeads(feeds, days)
  /\ leads_pc' = "returned"
  /\ UNCHANGED << feeds, days, limit, high_value_leads >>
  /\ UNCHANGED score_vars /\ UNCHANGED validate_vars
  /\ UNCHANGED verify_vars /\ UNCHANGED grok_vars
  /\ UNCHANGED << client_vars, translate_vars, chrome_vars, report_vars >>

\* main, lines 75-77, for some --limit
MainFilter ==
  /\ leads_pc = "returned"
  /\ \E n \in 0..MaxLimit :
       /\ limit' = n
       /\ high_value_leads' = HighValueLeads(all_leads, n)
  /\ leads_pc' = "report"
  /\ UNCHANGED << feeds, days, all_leads >>
  /\ UNCHANGED score_vars /\ UNCHANGED validate_vars
  /\ UNCHANGED verify_vars /\ UNCHANGED grok_vars
  /\ UNCHANGED << client_vars, translate_vars, chrome_vars, report_vars >>

NextLeads == FetchLeadsCall \/ MainFilter

SpecLeads == InitLeads /\ [][NextLeads]_vars

---------------------------------------------------------------------------
(* Specification SpecAge: fetch_leads over items that differ in their      *)
(* publication date.                                                       *)

\* An item titled 外包 (Money) for each kind of publication date: today,
\* one day old, two days old, not a date, an element without text, no
\* element; and an item without any keyword.
AgeItems ==
  { Item(Text(<<"u5916","u5305">>), NoText, p) :
      p \in { Text(<<"d0">>), Text(<<"d1">>), Text(<<"d2">>),
              Text(<<"?">>), NoText, Absent } }
  \cup { Item(Text(<<"h","i">>), NoText, Text(<<"d0">>)) }

\* The most items the two feeds deliver together.
MaxAgeItems == 2

AgeItemSeqs == UNION { [1..k -> AgeItems] : k \in 0..MaxAgeItems }

InitAge ==
  /\ \E s \in AgeItemSeqs : \E k \in 0..Len(s) :
       feeds = << Ok(SubSeq(s, 1, k)), Ok(SubSeq(s, k + 1, Len(s))) >>
  /\ days \in 0..MaxDays
  /\ limit = 0 /\ all_leads = << >> /\ high_value_leads = << >>
  /\ leads_pc = "call"
  /\ ScoreIdle /\ ValidateIdle /\ VerifyIdle /\ GrokIdle
  /\ ClientIdle /\ TranslateIdle /\ ChromeIdle /\ ReportIdle

SpecAge == InitAge /\ [][NextLeads]_vars

---------------------------------------------------------------------------
(* validate_grok_report, fetch_unified_intel.py lines 102-136 (the same    *)
(* text as intel_collector.py lines 79-113), in the configuration in which *)
(* the import of utils.verifier succeeded (VERIFIER_AVAILABLE).            *)

\* The least index k >= from with s[k] = c, or 0 when there is none.
FirstIndex(s, c, from) ==
  LET hits == { k \in from..Len(s) : s[k] = c }
  IN  IF hits = {} THEN 0 ELSE CHOOSE k \in hits : \A m \in hits : k <= m

Http == <<"h","t","t","p">>
SchemeSep == <<":","/","/">>

\* The length of the text 'https?://' matches at the 1-based index u, or 0.
SchemeLen(s, u) ==
  IF ~StartsWithAt(s, Http, u - 1) THEN 0
  ELSE IF StartsWithAt(s, <<"s">> \o SchemeSep, u + 3) THEN 8
  ELSE IF StartsWithAt(s, SchemeSep, u + 3) THEN 7
  ELSE 0

\* link_pattern = r'\[([^\]]+)\]\((https?://[^\)]+)\)' tried at the 1-based
\* index i: whether it matches, its two groups, and the index of its last
\* character.  The title runs to the first "]", the URL to the first ")",
\* and each holds at least one character.
MatchAt(s, i) ==
  LET j == FirstIndex(s, "]", i + 1)            \* the "]" closing the title
      u == j + 2                                \* where the URL starts
      n == SchemeLen(s, u)
      e == FirstIndex(s, ")", u + n)            \* the ")" closing the URL
      ok == /\ i <= Len(s) /\ s[i] = "["
            /\ j >= i + 2
            /\ j + 1 <= Len(s) /\ s[j + 1] = "("
            /\ n > 0
            /\ e >= u + n + 1
  IN  IF ok
      THEN [ok |-> TRUE, title |-> SubSeq(s, i + 1, j - 1),
            url |-> SubSeq(s, u, e - 1), end |-> e]
      ELSE [ok |-> FALSE, title |-> << >>, url |-> << >>, end |-> 0]

\* re.findall(link_pattern, s): the (title, url) pairs of the matches found
\* scanning from the 1-based index i, left to right, without overlap.
RECURSIVE FindAllFrom(_, _)
FindAllFrom(s, i) ==
  IF i > Len(s) THEN << >>
  ELSE LET m == MatchAt(s, i)
       IN  IF m.ok
           THEN << <<m.title, m.url>> >> \o FindAllFrom(s, m.end + 1)
           ELSE FindAllFrom(s, i + 1)

FindAll(s) == FindAllFrom(s, 1)

\* s.replace(old, new) from the 0-based offset i on: every occurrence of
\* old, found left to right without overlap.
RECURSIVE ReplaceFrom(_, _, _, _)
ReplaceFrom(s, old, new, i) ==
  LET k == Find(s, old, i)
  IN  IF k < 0 THEN Slice(s, i, Len(s))
      ELSE Slice(s, i, k) \o new \o ReplaceFrom(s, old, new, k + Len(old))

Replace(s, old, new) == ReplaceFrom(s, old, new, 0)

\* skip_domains = ['twitter.com', 'x.com', 'weibo.com', 'xiaohongshu.com']
skip_domains ==
  << <<"t","w","i","t","t","e","r",".","c","o","m">>,
     <<"x",".","c","o","m">>,
     <<"w","e","i","b","o",".","c","o","m">>,
     <<"x","i","a","o","h","o","n","g","s","h","u",".","c","o","m">> >>

\* any(domain in url for domain in skip_domains)
Skipped(url) == \E k \in 1..Len(skip_domains) : Contains(url, skip_domains[k])

\* " **(⚠️ 链接验证失败/404)**", what line 130 puts after the link
WarningSuffix ==
  <<" ","*","*","(","u26A0","uFE0F"," ","u94FE","u63A5","u9A8C","u8BC1","u5931","u8D25","/","4","0","4",")","*","*">>

\* old_link = f"[{title}]({url})"
OldLink(t, url) == <<"[">> \o t \o <<"]","(">> \o url \o <<")">>

\* A variant of NewLink in which the warning takes the place of the URL.
NewLinkWithoutUrl(t, url) == <<"[">> \o t \o <<"]">> \o WarningSuffix

\* A variant of NewLink in which the warning stands before the link.
NewLinkMarkerFirst(t, url) == WarningSuffix \o OldLink(t, url)

\* new_link = f"[{title}]({url}) **(⚠️ 链接验证失败/404)**"
NewLink(t, url) == OldLink(t, url) \o WarningSuffix

\* Lines 120-134: the for loop from the k-th match on, content being the
\* working text and lv the URLs for which verify_link returns True.
RECURSIVE ValidateLoop(_, _, _, _)
ValidateLoop(content, ms, k, lv) ==
  IF k > Len(ms) THEN content
  ELSE IF Skipped(ms[k][2]) \/ ms[k][2] \in lv
  THEN ValidateLoop(content, ms, k + 1, lv)
  ELSE ValidateLoop(Replace(content, OldLink(ms[k][1], ms[k][2]),
                            NewLink(ms[k][1], ms[k][2])),
                    ms, k + 1, lv)

\* The text validate_grok_report(md) returns.
ValidateGrokReport(md, lv) == ValidateLoop(md, FindAll(md), 1, lv)

---------------------------------------------------------------------------
(* Specification SpecValidate: one call of validate_grok_report.           *)

\* Pieces the input texts are built from.
TextFragments ==
  {
    \* [Bad](https://dead.example)   (a link)
    <<"[","B","a","d","]","(","h","t","t","p","s",":","/","/","d","e","a","d",".","e","x","a","m","p","l","e",")">>,
    \* [OK](https://good.example)   (a link)
    <<"[","O","K","]","(","h","t","t","p","s",":","/","/","g","o","o","d",".","e","x","a","m","p","l","e",")">>,
    \* [X](https://x.com/a)   (a link on a skip domain)
    <<"[","X","]","(","h","t","t","p","s",":","/","/","x",".","c","o","m","/","a",")">>,
    \* [B](http://b)   (a short link)
    <<"[","B","]","(","h","t","t","p",":","/","/","b",")">>,
    \* [A](http://a/[B](http://b)   (a link whose URL holds the text of the link before)
    <<"[","A","]","(","h","t","t","p",":","/","/","a","/","[","B","]","(","h","t","t","p",":","/","/","b",")">>,
    \* [S](https://x.com/[B](http://b)   (the same on a skip domain)
    <<"[","S","]","(","h","t","t","p","s",":","/","/","x",".","c","o","m","/","[","B","]","(","h","t","t","p",":","/","/","b",")">>,
    \* see    (plain text)
    <<"s","e","e"," ">>,
    \* [no](ftp://f)   (not matched: the scheme is not http(s))
    <<"[","n","o","]","(","f","t","p",":","/","/","f",")">>,
    \* [P](http://p/x.com)   (a link with a skip domain in its path only)
    <<"[","P","]","(","h","t","t","p",":","/","/","p","/","x",".","c","o","m",")">>,
    \* [a](http://u[b)c](http://v)   (a link whose text ends inside the text of the link below)
    <<"[","a","]","(","h","t","t","p",":","/","/","u","[","b",")","c","]","(","h","t","t","p",":","/","/","v",")">>,
    \* [b)c](http://v)   (a link with a parenthesis in its title)
    <<"[","b",")","c","]","(","h","t","t","p",":","/","/","v",")">> }

\* The most pieces concatenated into an input text.
MaxTextFrags == 2

RECURSIVE Texts(_)
Texts(n) ==
  IF n = 0 THEN { << >> }
  ELSE Texts(n - 1) \cup { f \o t : f \in TextFragments, t \in Texts(n - 1) }

\* The URLs of the links found in a text.
UrlsOf(s) == { FindAll(s)[k][2] : k \in 1..Len(FindAll(s)) }

\* The call: a text, and the URLs for which verify_link returns True.
InitValidate ==
  /\ markdown_content \in Texts(MaxTextFrags)
  /\ live \in SUBSET UrlsOf(markdown_content)
  /\ matches = << >> /\ match_i = 0 /\ validated_content = << >>
  /\ probes = << >> /\ validate_pc = "call"
  /\ ScoreIdle /\ LeadsIdle /\ VerifyIdle /\ GrokIdle
  /\ ClientIdle /\ TranslateIdle /\ ChromeIdle /\ ReportIdle

\* A variant of ValidateExtract that returns the empty text when no link
\* is found.
ValidateExtractEmptyOnNoLink ==
  /\ validate_pc = "call"
  /\ matches' = FindAll(markdown_content)
  /\ validated_content' =
       IF FindAll(markdown_content) = << >> THEN << >> ELSE markdown_content
  /\ match_i' = 1
  /\ validate_pc' = IF FindAll(markdown_content) = << >> THEN "ret" ELSE "loop"
  /\ UNCHANGED << markdown_content, live, probes >>
  /\ UNCHANGED score_vars /\ UNCHANGED leads_vars
  /\ UNCHANGED verify_vars /\ UNCHANGED grok_vars
  /\ UNCHANGED << client_vars, translate_vars, chrome_vars, report_vars >>

\* Lines 111-118: extract the links; no match returns the argument.
ValidateExtract ==
  /\ validate_pc = "call"
  /\ matches' = FindAll(markdown_content)
  /\ validated_content' = markdown_content
  /\ match_i' = 1
  /\ validate_pc' = IF FindAll(markdown_content) = << >> THEN "ret" ELSE "loop"
  /\ UNCHANGED << markdown_content, live, probes >>
  /\ UNCHANGED score_vars /\ UNCHANGED leads_vars
  /\ UNCHANGED verify_vars /\ UNCHANGED grok_vars
  /\ UNCHANGED << client_vars, translate_vars, chrome_vars, report_vars >>

\* Lines 120-124: the link is on a skip domain, continue.
ValidateSkip ==
  /\ validate_pc = "loop" /\ match_i <= Len(matches)
  /\ Skipped(matches[match_i][2])
  /\ match_i' = match_i + 1
  /\ UNCHANGED << markdown_content, live, matches, validated_content,
                  probes, validate_pc >>
  /\ UNCHANGED score_vars /\ UNCHANGED leads_vars
  /\ UNCHANGED verify_vars /\ UNCHANGED grok_vars
  /\ UNCHANGED << client_vars, translate_vars, chrome_vars, report_vars >>

\* A variant of ValidateLive that probes a URL only the first time it is
\* met.
ValidateLiveCached ==
  /\ validate_pc = "loop" /\ match_i <= Len(matches)
  /\ ~Skipped(matches[match_i][2])
  /\ matches[match_i][2] \in live
  /\ probes' = IF InList(matches[match_i][2], probes) THEN probes
               ELSE Append(probes, matches[match_i][2])
  /\ match_i' = match_i + 1
  /\ UNCHANGED << markdown_content, live, matches, validated_content,
                  validate_pc >>
  /\ UNCHANGED score_vars /\ UNCHANGED leads_vars
  /\ UNCHANGED verify_vars /\ UNCHANGED grok_vars
  /\ UNCHANGED << client_vars, translate_vars, chrome_vars, report_vars >>

\* Lines 126, 133-134: verify_link(url) returned True.
ValidateLive ==
  /\ validate_pc = "loop" /\ match_i <= Len(matches)
  /\ ~Skipped(matches[match_i][2])
  /\ matches[match_i][2] \in live
  /\ probes' = Append(probes, matches[match_i][2])
  /\ match_i' = match_i + 1
  /\ UNCHANGED << markdown_content, live, matches, validated_content,
                  validate_pc >>
  /\ UNCHANGED score_vars /\ UNCHANGED leads_vars
  /\ UNCHANGED verify_vars /\ UNCHANGED grok_vars
  /\ UNCHANGED << client_vars, translate_vars, chrome_vars, report_vars >>

\* Lines 126-132: verify_link(url) returned False; every occurrence of the
\* link's text in the working text gets the warning appended.
ValidateDead ==
  /\ validate_pc = "loop" /\ match_i <= Len(matches)
  /\ ~Skipped(matches[match_i][2])
  /\ matches[match_i][2] \notin live
  /\ probes' = Append(probes, matches[match_i][2])
  /\ validated_content' =
       Replace(validated_content,
               OldLink(matches[match_i][1], matches[match_i][2]),
               NewLink(matches[match_i][1], matches[match_i][2]))
  /\ match_i' = match_i + 1
  /\ UNCHANGED << markdown_content, live, matches, validate_pc >>
  /\ UNCHANGED score_vars /\ UNCHANGED leads_vars
  /\ UNCHANGED verify_vars /\ UNCHANGED grok_vars
  /\ UNCHANGED << client_vars, translate_vars, chrome_vars, report_vars >>

\* Line 136: the loop is over, return validated_content.
ValidateReturn ==
  /\ validate_pc = "loop" /\ match_i > Len(matches)
  /\ validate_pc' = "ret"
  /\ UNCHANGED << markdown_content, live, matches, match_i,
                  validated_content, probes >>
  /\ UNCHANGED score_vars /\ UNCHANGED leads_vars
  /\ UNCHANGED verify_vars /\ UNCHANGED grok_vars
  /\ UNCHANGED << client_vars, translate_vars, chrome_vars, report_vars >>

NextValidate ==
  \/ ValidateExtract \/ ValidateSkip \/ ValidateLive
  \/ ValidateDead \/ ValidateReturn

SpecValidate == InitValidate /\ [][NextValidate]_vars

---------------------------------------------------------------------------
(* verify_link, src/src/utils/verifier.py lines 5-31.                      *)

\* A request that came back with a response of the given status code
\* (redirects followed, so the status is that of the final response).
Response(status_code) == [kind |-> "response", status_code |-> status_code]

\* A request that raised: httpx.TimeoutException, httpx.ConnectError (DNS
\* failure or refused connection), httpx.UnsupportedProtocol/InvalidURL.
Raised(error) == [kind |-> "raised", error |-> error]

StatusCodes == { 200, 403, 404, 405, 500 }
RequestErrors == { "timeout", "dns", "connect", "malformed_url" }

Outcomes == { Response(c) : c \in StatusCodes } \cup
            { Raised(e) : e \in RequestErrors }

\* A variant of HeadReturns in which only status 200 ends the probe.
HeadReturnsOn200Only(o) == o.kind = "response" /\ o.status_code = 200

\* Lines 20-23: the HEAD response ends the probe (status 200 or 404).
HeadReturns(o) == o.kind = "response" /\ o.status_code \in { 200, 404 }

\* A variant of VerifyResult in which a failed request propagates.
VerifyResultUncaught(o) ==
  IF o.kind = "raised" THEN "raised"
  ELSE IF o.status_code = 200 THEN "True" ELSE "False"

\* What verify_link returns when the request with outcome o is its last:
\* lines 20-23 and 27 (status_code == 200), lines 29-31 (except Exception).
VerifyResult(o) ==
  IF o.kind = "raised" THEN "False"
  ELSE IF o.status_code = 200 THEN "True" ELSE "False"

---------------------------------------------------------------------------
(* Specification SpecVerify: one call of verify_link.                      *)

InitVerify ==
  /\ head_outcome \in Outcomes /\ get_outcome \in Outcomes
  /\ requests = << >> /\ response = NoResponse
  /\ is_valid = "none" /\ verify_pc = "call"
  /\ ScoreIdle /\ LeadsIdle /\ ValidateIdle /\ GrokIdle
  /\ ClientIdle /\ TranslateIdle /\ ChromeIdle /\ ReportIdle

\* Lines 19-23 and 29-31: httpx.head; status 200 or 404, or an exception,
\* ends the call.
VerifyHead ==
  /\ verify_pc = "call"
  /\ requests' = Append(requests, "HEAD")
  /\ response' = head_outcome
  /\ IF head_outcome.kind = "raised" \/ HeadReturns(head_outcome)
     THEN /\ is_valid' = VerifyResult(head_outcome)
          /\ verify_pc' = "ret"
     ELSE /\ is_valid' = is_valid
          /\ verify_pc' = "get"
  /\ UNCHANGED << head_outcome, get_outcome >>
  /\ UNCHANGED score_vars /\ UNCHANGED leads_vars /\ UNCHANGED validate_vars
  /\ UNCHANGED grok_vars
  /\ UNCHANGED << client_vars, translate_vars, chrome_vars, report_vars >>

\* Lines 26-27 and 29-31: httpx.get after a HEAD of any other status.
VerifyGet ==
  /\ verify_pc = "get"
  /\ requests' = Append(requests, "GET")
  /\ response' = get_outcome
  /\ is_valid' = VerifyResult(get_outcome)
  /\ verify_pc' = "ret"
  /\ UNCHANGED << head_outcome, get_outcome >>
  /\ UNCHANGED score_vars /\ UNCHANGED leads_vars /\ UNCHANGED validate_vars
  /\ UNCHANGED grok_vars
  /\ UNCHANGED << client_vars, translate_vars, chrome_vars, report_vars >>

NextVerify == VerifyHead \/ VerifyGet

SpecVerify == InitVerify /\ [][NextVerify]_vars

---------------------------------------------------------------------------
(* The callers of fetch_grok_intel: fetch_all_sources                      *)
(* (fetch_unified_intel.py lines 227-232 and 262-274),                     *)
(* summarize_posts_with_grok (src/data/rss_sensor.py lines 158-163) and    *)
(* run_alpha_scan (run_alpha_radar.py lines 54-88).                        *)

\* "Error", the token the callers look for
ErrorToken == <<"E","r","r","o","r">>

\* text and "Error" not in text: the text is not empty and has no "Error"
Usable(text) == text # << >> /\ ~Contains(text, ErrorToken)

\* The URLs validate_grok_report(md) probes, in call order (lines 120-126).
ValidateProbes(md) ==
  SelectSeq([k \in 1..Len(FindAll(md)) |-> FindAll(md)[k][2]],
            LAMBDA u : ~Skipped(u))

\* " **(⚠️ 自动核实: 链接无效/404)**", what run_alpha_radar.py line 77 puts
\* after a dead link
AlphaWarningSuffix ==
  <<" ","*","*","(","u26A0","uFE0F"," ","u81EA","u52A8","u6838","u5B9E",":"," ","u94FE","u63A5","u65E0","u6548","/","4","0","4",")","*","*">>

\* A variant of VerifyMatch that leaves links on the skip domains alone.
VerifyMatchSkipDomains(m, lv) ==
  IF m.url \in lv \/ Skipped(m.url) THEN OldLink(m.title, m.url)
  ELSE OldLink(m.title, m.url) \o AlphaWarningSuffix

\* verify_match (run_alpha_radar.py lines 61-77) on one match: the text
\* that replaces it.  The pattern admits http(s) URLs only, so line 67 is
\* never reached.
VerifyMatch(m, lv) ==
  IF m.url \in lv THEN OldLink(m.title, m.url)
  ELSE OldLink(m.title, m.url) \o AlphaWarningSuffix

\* re.sub(pattern, verify_match, s) of line 80, from the 1-based index i.
RECURSIVE SubLinksFrom(_, _, _)
SubLinksFrom(s, i, lv) ==
  IF i > Len(s) THEN << >>
  ELSE LET m == MatchAt(s, i)
       IN  IF m.ok THEN VerifyMatch(m, lv) \o SubLinksFrom(s, m.end + 1, lv)
           ELSE << s[i] >> \o SubLinksFrom(s, i + 1, lv)

SubLinks(s, lv) == SubLinksFrom(s, 1, lv)

\* The URLs verify_match probes: those of all matches, left to right.
AlphaProbes(s) == [k \in 1..Len(FindAll(s)) |-> FindAll(s)[k][2]]

---------------------------------------------------------------------------
(* Specification SpecGrok: fetch_grok_intel has returned a text and one of *)
(* its callers handles it.                                                 *)

\* Pieces the returned texts are built from.
GrokFragments ==
  {
    \* Error: No API Key.   (x_grok_sensor.py line 27)
    <<"E","r","r","o","r",":"," ","N","o"," ","A","P","I"," ","K","e","y",".">>,
    \* ok    (plain text)
    <<"o","k"," ">>,
    \* error   (lower case: not the token)
    <<"e","r","r","o","r">>,
    \* [Bad](https://dead.example)   (a link)
    <<"[","B","a","d","]","(","h","t","t","p","s",":","/","/","d","e","a","d",".","e","x","a","m","p","l","e",")">>,
    \* [X](https://x.com/a)   (a link on a skip domain)
    <<"[","X","]","(","h","t","t","p","s",":","/","/","x",".","c","o","m","/","a",")">> }

\* The most pieces concatenated into a returned text.
MaxGrokFrags == 2

RECURSIVE GrokTexts(_)
GrokTexts(n) ==
  IF n = 0 THEN { << >> }
  ELSE GrokTexts(n - 1) \cup
       { f \o t : f \in GrokFragments, t \in GrokTexts(n - 1) }

InitGrok ==
  /\ grok_report \in GrokTexts(MaxGrokFrags)
  /\ live \in SUBSET UrlsOf(grok_report)
  /\ validator_input = None /\ stored = None /\ written = None
  /\ grok_pc = "call"
  /\ markdown_content = << >> /\ matches = << >> /\ match_i = 0
  /\ validated_content = << >> /\ probes = << >> /\ validate_pc = "idle"
  /\ ScoreIdle /\ LeadsIdle /\ VerifyIdle
  /\ ClientIdle /\ TranslateIdle /\ ChromeIdle /\ ReportIdle

\* fetch_all_sources, fetch_unified_intel.py lines 262-274: the X report.
\* A usable text is validated and the result appended to intel["social"].
FetchAllSourcesSocial ==
  /\ grok_pc = "call"
  /\ IF Usable(grok_report)
     THEN /\ validator_input' = grok_report
          /\ stored' = ValidateGrokReport(grok_report, live)
          /\ probes' = ValidateProbes(grok_report)
     ELSE UNCHANGED << validator_input, stored, probes >>
  /\ grok_pc' = "fetch_all_sources"
  /\ UNCHANGED << grok_report, written >>
  /\ UNCHANGED << markdown_content, live, matches, match_i,
                  validated_content, validate_pc >>
  /\ UNCHANGED score_vars /\ UNCHANGED leads_vars /\ UNCHANGED verify_vars
  /\ UNCHANGED << client_vars, translate_vars, chrome_vars, report_vars >>

\* fetch_all_sources, fetch_unified_intel.py lines 227-232: the review of a
\* product.  A usable text becomes product_data["grok_review"].
FetchAllSourcesReview ==
  /\ grok_pc = "call"
  /\ stored' = IF Usable(grok_report) THEN grok_report ELSE stored
  /\ grok_pc' = "grok_review"
  /\ UNCHANGED << grok_report, validator_input, written >>
  /\ UNCHANGED validate_vars
  /\ UNCHANGED score_vars /\ UNCHANGED leads_vars /\ UNCHANGED verify_vars
  /\ UNCHANGED << client_vars, translate_vars, chrome_vars, report_vars >>

\* summarize_posts_with_grok, rss_sensor.py lines 159-160: returns the text
\* when usable, else None.
SummarizePostsWithGrok ==
  /\ grok_pc = "call"
  /\ stored' = IF Usable(grok_report) THEN grok_report ELSE None
  /\ grok_pc' = "summarize_posts_with_grok"
  /\ UNCHANGED << grok_report, validator_input, written >>
  /\ UNCHANGED validate_vars
  /\ UNCHANGED score_vars /\ UNCHANGED leads_vars /\ UNCHANGED verify_vars
  /\ UNCHANGED << client_vars, translate_vars, chrome_vars, report_vars >>

\* run_alpha_scan, run_alpha_radar.py lines 54-88: the text goes through
\* the link rewrite and into the report file, after the two header lines.
RunAlphaScan ==
  /\ grok_pc = "call"
  /\ validator_input' = grok_report
  /\ probes' = AlphaProbes(grok_report)
  /\ written' = SubLinks(grok_report, live)
  /\ grok_pc' = "run_alpha_scan"
  /\ UNCHANGED << grok_report, stored >>
  /\ UNCHANGED << markdown_content, live, matches, match_i,
                  validated_content, validate_pc >>
  /\ UNCHANGED score_vars /\ UNCHANGED leads_vars /\ UNCHANGED verify_vars
  /\ UNCHANGED << client_vars, translate_vars, chrome_vars, report_vars >>

NextGrok ==
  \/ FetchAllSourcesSocial \/ FetchAllSourcesReview
  \/ SummarizePostsWithGrok \/ RunAlphaScan

SpecGrok == InitGrok /\ [][NextGrok]_vars

---------------------------------------------------------------------------
(* fetch_grok_intel, src/src/sensors/x_grok_sensor.py lines 20-94.         *)

\* "Error: No API Key."   (line 27)
NoApiKeyText ==
  <<"E","r","r","o","r",":"," ","N","o"," ","A","P","I"," ","K","e","y",".">>

\* "⚠️ API Error: "   (line 88)
ApiErrorPrefix ==
  <<"u26A0","uFE0F"," ","A","P","I"," ","E","r","r","o","r",":"," ">>

\* "⚠️ Connection Error: "   (line 92)
ConnectionErrorPrefix ==
  <<"u26A0","uFE0F"," ","C","o","n","n","e","c","t","i","o","n"," ","E","r","r","o","r",":"," ">>

DecimalDigits == << "0","1","2","3","4","5","6","7","8","9" >>

\* str(n) for n >= 0
RECURSIVE Str(_)
Str(n) ==
  IF n < 10 THEN << DecimalDigits[n + 1] >>
  ELSE Str(n \div 10) \o << DecimalDigits[(n % 10) + 1] >>

\* The body of a response: its raw text (response.text) and what
\* data['choices'][0]['message']['content'] does on response.json():
\*   "not_json"        response.json() raises JSONDecodeError
\*   "no_choices"      data has no key 'choices' (KeyError)
\*   "empty_choices"   data['choices'] is empty (IndexError)
\*   "content_null"    the content is JSON null, read as None
\*   "content"         the content is the string in the field content
Body(shape, text, content) ==
  [shape |-> shape, text |-> text, content |-> content]

\* What str(e) gives for the exception line 77 or 78 raises on a body
ShapeErrorText(shape) ==
  CASE shape = "not_json" ->
         \* Expecting value: line 1 column 1 (char 0)
         <<"E","x","p","e","c","t","i","n","g"," ","v","a","l","u","e",":"," ","l","i","n","e"," ","1"," ","c","o","l","u","m","n"," ","1"," ","(","c","h","a","r"," ","0",")">>
    [] shape = "no_choices" -> <<"'","c","h","o","i","c","e","s","'">>
    [] OTHER ->
         \* list index out of range
         <<"l","i","s","t"," ","i","n","d","e","x"," ","o","u","t"," ","o","f"," ","r","a","n","g","e">>

\* What str(e) gives for the exception httpx.post raises
RequestErrorText(error) ==
  CASE error = "timeout" -> << >>
    [] error = "connect" ->
         \* [Errno 111] Connection refused
         <<"[","E","r","r","n","o"," ","1","1","1","]"," ","C","o","n","n","e","c","t","i","o","n"," ","r","e","f","u","s","e","d">>
    [] OTHER -> <<"t","i","m","e","d"," ","o","u","t">>

\* A response of the given status with the given body.
Answer(status_code, body) ==
  [kind |-> "response", status_code |-> status_code, body |-> body]

\* response.raise_for_status() raises: the status is not 2xx.
RaisesForStatus(status_code) == status_code < 200 \/ status_code > 299

\* Lines 25-27: `not XAI_API_KEY` (unset or empty)
KeyMissing(key) == key = None \/ key = << >>

\* Lines 73-94: what fetch_grok_intel returns once the request was sent
\* with outcome o.
PostResult(o) ==
  IF o.kind = "raised"
  THEN ConnectionErrorPrefix \o RequestErrorText(o.error)
  ELSE IF RaisesForStatus(o.status_code)
  THEN ApiErrorPrefix \o Str(o.status_code) \o <<" ","-"," ">> \o o.body.text
  ELSE IF o.body.shape = "content" THEN o.body.content
  ELSE IF o.body.shape = "content_null" THEN None
  ELSE ConnectionErrorPrefix \o ShapeErrorText(o.body.shape)

---------------------------------------------------------------------------
(* Specification SpecClient: one call of fetch_grok_intel.                 *)

ApiKeys == { None, << >>, <<"s","k","-","1">> }

ClientStatusCodes == { 200, 201, 302, 401, 429, 500 }

ClientBodies ==
  { Body("not_json", <<"o","o","p","s">>, << >>),
    Body("not_json", << >>, << >>),
    Body("no_choices", <<"{","}">>, << >>),
    Body("empty_choices", <<"{","c","}">>, << >>),
    Body("content_null", <<"{","n","}">>, << >>),
    Body("content", <<"{","t","}">>, <<"#"," ","u62A5","u544A">>),
    Body("content", <<"{","e","}">>, << >>) }

ClientOutcomes ==
  { Answer(c, b) : c \in ClientStatusCodes, b \in ClientBodies } \cup
  { Raised(e) : e \in { "timeout", "connect", "read_timeout" } }

InitClient ==
  /\ XAI_API_KEY \in ApiKeys
  /\ post_outcome \in ClientOutcomes
  /\ client_result = None /\ client_pc = "call"
  /\ ScoreIdle /\ LeadsIdle /\ ValidateIdle /\ VerifyIdle /\ GrokIdle
  /\ TranslateIdle /\ ChromeIdle /\ ReportIdle

\* Lines 25-27: without a key the call returns at once.
ClientCheckKey ==
  /\ client_pc = "call"
  /\ IF KeyMissing(XAI_API_KEY)
     THEN client_result' = NoApiKeyText /\ client_pc' = "ret"
     ELSE client_result' = client_result /\ client_pc' = "post"
  /\ UNCHANGED << XAI_API_KEY, post_outcome >>
  /\ UNCHANGED << score_vars, leads_vars, validate_vars, verify_vars,
                  grok_vars, translate_vars, chrome_vars, report_vars >>

\* Lines 73-94: the request, the reading of the answer, the two except
\* clauses.
ClientPost ==
  /\ client_pc = "post"
  /\ client_result' = PostResult(post_outcome)
  /\ client_pc' = "ret"
  /\ UNCHANGED << XAI_API_KEY, post_outcome >>
  /\ UNCHANGED << score_vars, leads_vars, validate_vars, verify_vars,
                  grok_vars, translate_vars, chrome_vars, report_vars >>

NextClient == ClientCheckKey \/ ClientPost

SpecClient == InitClient /\ [][NextClient]_vars

---------------------------------------------------------------------------
(* translate_to_chinese, src/src/utils/gemini_translator.py lines 21-87.   *)

\* max_retries = 3   (line 60)
max_retries == 3

\* `len(text) < 10`: a shorter text is returned untranslated (line 36).
MinLength == 10

\* The default of the parameter max_chars (line 21).
DefaultMaxChars == 100

\* Characters str.strip() removes: space, line feed (U+000A), tab (U+0009).
IsSpace(c) == c \in { " ", "u000A", "u0009" }

\* s.strip()
Strip(s) ==
  LET kept == { k \in 1..Len(s) : ~IsSpace(s[k]) }
  IN  IF kept = {} THEN << >>
      ELSE SubSeq(s, CHOOSE k \in kept : \A m \in kept : k <= m,
                     CHOOSE k \in kept : \A m \in kept : k >= m)

\* text[:max_chars] + "..." if len(text) > max_chars else text
\* (lines 34, 77, 85, 87), for max_chars >= 0
Brief(s, n) == IF Len(s) > n THEN SubSeq(s, 1, n) \o Ellipsis ELSE s

\* What one attempt does: the request or the reading of the answer raises,
\* or the answer holds the given result text (empty when the answer holds
\* no candidate text).
ApiResult(result) == [kind |-> "result", result |-> result]

\* Lines 36-37: the text is returned without any request.
TooShort(s) == s = << >> \/ Len(s) < MinLength

\* Lines 69-70: the attempt ends the call with a translation.
Delivers(o) == o.kind = "result" /\ o.result # << >>

---------------------------------------------------------------------------
(* Specification SpecTranslate: one call of translate_to_chinese.          *)

GeminiKeys == { None, <<"k">> }

\* Texts of 0, 9, 10 and 13 characters.
TranslateTexts ==
  { << >>,
    <<"a","b","s","t","r","a","c","t","s">>,
    <<"a","b","s","t","r","a","c","t","e","d">>,
    <<"d","e","e","p"," ","l","e","a","r","n","i","n","g">> }

\* The values of max_chars: below and above the length of the longest text.
MaxCharsValues == { MinLength + 2, DefaultMaxChars }

ApiOutcomes ==
  { Raised("timeout"), Raised("http_status"),
    ApiResult(<< >>),
    ApiResult(<<"u6DF1","u5EA6">>),           \* 深度
    ApiResult(<<" ","u5B66","u4E60","u000A">>) } \* " 学习" and a line feed

InitTranslate ==
  /\ GEMINI_API_KEY \in GeminiKeys
  /\ source_text \in TranslateTexts
  /\ max_chars \in MaxCharsValues
  /\ api_outcomes \in [1..max_retries -> ApiOutcomes]
  /\ attempt = 0 /\ translated = None /\ translate_pc = "call"
  /\ ScoreIdle /\ LeadsIdle /\ ValidateIdle /\ VerifyIdle /\ GrokIdle
  /\ ClientIdle /\ ChromeIdle /\ ReportIdle

\* Lines 32-37: without a key the brief of the text is returned, and a
\* text that is empty or short is returned as it is.
TranslateGuards ==
  /\ translate_pc = "call"
  /\ IF GEMINI_API_KEY = None \/ GEMINI_API_KEY = << >>
     THEN translated' = Brief(source_text, max_chars) /\ translate_pc' = "ret"
     ELSE IF TooShort(source_text)
     THEN translated' = source_text /\ translate_pc' = "ret"
     ELSE translated' = translated /\ translate_pc' = "loop"
  /\ UNCHANGED << GEMINI_API_KEY, source_text, max_chars, api_outcomes,
                  attempt >>
  /\ UNCHANGED << score_vars, leads_vars, validate_vars, verify_vars,
                  grok_vars, client_vars, chrome_vars, report_vars >>

\* Lines 61-85: one pass of the for loop.  A result that is not empty is
\* returned stripped; otherwise the loop goes on while attempts are left,
\* and the last attempt returns the brief of the text.
TranslateAttempt ==
  /\ translate_pc = "loop" /\ attempt < max_retries
  /\ attempt' = attempt + 1
  /\ LET o == api_outcomes[attempt + 1]
     IN  IF Delivers(o)
         THEN translated' = Strip(o.result) /\ translate_pc' = "ret"
         ELSE IF attempt < max_retries - 1
         THEN translated' = translated /\ translate_pc' = "loop"
         ELSE translated' = Brief(source_text, max_chars)
              /\ translate_pc' = "ret"
  /\ UNCHANGED << GEMINI_API_KEY, source_text, max_chars, api_outcomes >>
  /\ UNCHANGED << score_vars, leads_vars, validate_vars, verify_vars,
                  grok_vars, client_vars, chrome_vars, report_vars >>

NextTranslate == TranslateGuards \/ TranslateAttempt

SpecTranslate == InitTranslate /\ [][NextTranslate]_vars

---------------------------------------------------------------------------
(* ChromeRadar.scan_opportunities, src/src/sensors/chrome_radar.py lines   *)
(* 46-118, and _inspect_detail_page, lines 120-160.                        *)

\* MIN_USERS = 5000   (line 36)
MIN_USERS == 5000

\* MAX_RATING = 3.8   (line 37), in tenths of a star
MAX_RATING == 38

\* The value of a decimal digit, or -1 for any other character.
DigitValue(c) ==
  IF \E k \in 1..10 : DecimalDigits[k] = c
  THEN (CHOOSE k \in 1..10 : DecimalDigits[k] = c) - 1
  ELSE -1

\* float(rating_str) for the forms "d" and "d.d", in tenths; -1 stands for
\* the ValueError of line 79.
RatingOf(rating_str) ==
  IF Len(rating_str) = 1 /\ DigitValue(rating_str[1]) >= 0
  THEN 10 * DigitValue(rating_str[1])
  ELSE IF /\ Len(rating_str) = 3 /\ rating_str[2] = "."
          /\ DigitValue(rating_str[1]) >= 0 /\ DigitValue(rating_str[3]) >= 0
  THEN 10 * DigitValue(rating_str[1]) + DigitValue(rating_str[3])
  ELSE -1

\* int(user_count_str.replace(",", ""))   (line 143), for a string of
\* digits and commas
RECURSIVE IntOf(_)
IntOf(user_count_str) ==
  IF user_count_str = << >> THEN 0
  ELSE LET last == user_count_str[Len(user_count_str)]
           init == SubSeq(user_count_str, 1, Len(user_count_str) - 1)
       IN  IF last = "," THEN IntOf(init)
           ELSE 10 * IntOf(init) + DigitValue(last)

\* What _inspect_detail_page finds: the digits and commas standing before
\* "+ users" or "users" on the detail page, nothing of the kind, or a
\* request that failed.
Users(user_count_str) == [kind |-> "users", user_count_str |-> user_count_str]
NoUsersText == [kind |-> "no_match", user_count_str |-> <<"0">>]
DetailFailed == [kind |-> "failed", user_count_str |-> <<"0">>]

\* Lines 138-143 and 158-160: user_cnt
UserCount(detail) ==
  IF detail.kind = "users" THEN IntOf(detail.user_count_str) ELSE 0

\* A card of a category page: whether its name, link and rating tags are
\* all there, the text of its rating tag, and its detail page.
Card(name, complete, rating_str, detail) ==
  [name |-> name, complete |-> complete, rating_str |-> rating_str,
   detail |-> detail]

\* Lines 93-101
Opportunity(card) ==
  [name |-> card.name, rating |-> RatingOf(card.rating_str),
   user_count_str |-> card.detail.user_count_str,
   user_count_val |-> UserCount(card.detail)]

\* Lines 70-92: the card passes both filters.
Kept(card) ==
  /\ card.complete
  /\ RatingOf(card.rating_str) >= 0
  /\ ~(RatingOf(card.rating_str) > MAX_RATING)
  /\ UserCount(card.detail) >= MIN_USERS

\* Lines 64-113: the loop over the cards of one page, opps being the list
\* so far; returned tells whether line 106 left the function.
RECURSIVE ScanCards(_, _, _)
ScanCards(cs, opps, lim) ==
  IF cs = << >> THEN [returned |-> FALSE, opportunities |-> opps]
  ELSE IF ~Kept(Head(cs)) THEN ScanCards(Tail(cs), opps, lim)
  ELSE LET more == Append(opps, Opportunity(Head(cs)))
       IN  IF Len(more) >= lim
           THEN [returned |-> TRUE, opportunities |-> more]
           ELSE ScanCards(Tail(cs), more, lim)

\* Lines 50-118: the loop over the category pages from the k-th on; a page
\* that cannot be fetched is passed over.
RECURSIVE ScanPages(_, _, _, _)
ScanPages(ps, k, opps, lim) ==
  IF k > Len(ps) THEN opps
  ELSE IF ps[k].kind # "ok" THEN ScanPages(ps, k + 1, opps, lim)
  ELSE LET r == ScanCards(ps[k].cards, opps, lim)
       IN  IF r.returned THEN r.opportunities
           ELSE ScanPages(ps, k + 1, r.opportunities, lim)

\* The whole of scan_opportunities.
ScanOpportunitiesOf(ps, lim) == ScanPages(ps, 1, << >>, lim)

---------------------------------------------------------------------------
(* Specification SpecChrome: one call of scan_opportunities.               *)

\* The cards the pages are built from.
StoreCards ==
  { Card("a", TRUE, <<"3",".","7">>, Users(<<"5",",","0","0","1">>)),
    Card("b", TRUE, <<"3",".","8">>, Users(<<"1","0",",","0","0","0">>)),
    Card("c", TRUE, <<"3",".","9">>, Users(<<"1","0",",","0","0","0">>)),
    Card("d", TRUE, <<"2">>, Users(<<"5",",","0","0","0">>)),
    Card("e", TRUE, <<"3",".","0">>, Users(<<"4",",","9","9","9">>)),
    Card("f", TRUE, <<"N","/","A">>, Users(<<"9",",","0","0","0">>)),
    Card("g", FALSE, <<"1",".","0">>, Users(<<"9",",","0","0","0">>)),
    Card("h", TRUE, <<"1",".","5">>, NoUsersText),
    Card("i", TRUE, <<"1",".","5">>, DetailFailed) }

\* The most cards the two pages deliver together.
MaxCards == 2
\* The largest limit parameter.
MaxScanLimit == 2

CardSeqs == UNION { [1..k -> StoreCards] : k \in 0..MaxCards }

Page(cs) == [kind |-> "ok", cards |-> cs]
PageFailed == [kind |-> "failed", cards |-> << >>]

PagePairs ==
     UNION { { << Page(SubSeq(s, 1, k)), Page(SubSeq(s, k + 1, Len(s))) >> :
                 k \in 0..Len(s) } : s \in CardSeqs }
  \cup { << PageFailed, Page(s) >> : s \in CardSeqs }
  \cup { << Page(s), PageFailed >> : s \in CardSeqs }
  \cup { << PageFailed, PageFailed >> }

InitChrome ==
  /\ pages \in PagePairs
  /\ scan_limit \in 0..MaxScanLimit
  /\ opportunities = << >> /\ chrome_pc = "call"
  /\ ScoreIdle /\ LeadsIdle /\ ValidateIdle /\ VerifyIdle /\ GrokIdle
  /\ ClientIdle /\ TranslateIdle /\ ReportIdle

\* opportunities = chrome.scan_opportunities(limit=...)
ScanOpportunities ==
  /\ chrome_pc = "call"
  /\ opportunities' = ScanOpportunitiesOf(pages, scan_limit)
  /\ chrome_pc' = "ret"
  /\ UNCHANGED << pages, scan_limit >>
  /\ UNCHANGED << score_vars, leads_vars, validate_vars, verify_vars,
                  grok_vars, client_vars, translate_vars, report_vars >>

NextChrome == ScanOpportunities

SpecChrome == InitChrome /\ [][NextChrome]_vars

---------------------------------------------------------------------------
(* generate_report, run_bounty_hunter.py lines 21-60: the V2EX section.    *)

\* The icons of line 38: "🔥", "⚠️", "💼"
IconFire == <<"u1F525">>
IconWarning == <<"u26A0","uFE0F">>
IconBriefcase == <<"u1F4BC">>

\* The two thresholds of line 38.
FireScore == 100
WarningScore == 50

\* A variant of UrgencyIcon whose fire icon needs a score above 100.
UrgencyIconAbove100(desperation_score) ==
  IF desperation_score > FireScore THEN IconFire
  ELSE IF desperation_score >= WarningScore THEN IconWarning
  ELSE IconBriefcase

\* urgency_icon = "🔥" if score >= 100 else "⚠️" if score >= 50 else "💼"
UrgencyIcon(desperation_score) ==
  IF desperation_score >= FireScore THEN IconFire
  ELSE IF desperation_score >= WarningScore THEN IconWarning
  ELSE IconBriefcase

\* Lines 34-42: the icon of each lead's heading, in list order (none when
\* the list is empty and the note of line 35 is written instead).
ReportIcons(leads) ==
  [k \in 1..Len(leads) |-> UrgencyIcon(leads[k].desperation_score)]

---------------------------------------------------------------------------
(* Specification SpecReport: generate_report on a hit list that main built *)
(* from the leads fetch_leads returned.                                    *)

\* Pieces the titles of the leads are built from.
ReportFragments ==
  << <<"u5916","u5305">>,                     \* 外包     Money
     <<"u6C42","u52A9">>,                     \* 求助     Pain
     <<"u5728","u7EBF","u7B49">>,             \* 在线等   Urgent
     <<"P","y","t","h","o","n">>,             \* Python   Tech
     <<"u6025">> >>                           \* 急       Money and Urgent

\* The pieces chosen by the set of indices c, joined in table order.
RECURSIVE TitleOf(_, _)
TitleOf(c, k) ==
  IF k > Len(ReportFragments) THEN << >>
  ELSE (IF k \in c THEN ReportFragments[k] ELSE << >>) \o TitleOf(c, k + 1)

ReportTitles == { TitleOf(c, 1) : c \in SUBSET (1..Len(ReportFragments)) }

\* The leads fetch_leads makes of the titles.
ReportLeads ==
  UNION { { LeadsOf(CategoryJobs, t, <<"u">>, << >>, <<"d0">>)[k] :
              k \in 1..Len(LeadsOf(CategoryJobs, t, <<"u">>, << >>, <<"d0">>)) } :
          t \in ReportTitles }

\* The most leads in the hit list.
MaxReportLeads == 2

InitReport ==
  /\ \E n \in 0..MaxReportLeads :
       \E ls \in [1..n -> ReportLeads] :
         high_value_leads = HighValueLeads(SortDesc(ls), MaxReportLeads)
  /\ feeds = << >> /\ days = 0 /\ limit = MaxReportLeads
  /\ all_leads = << >> /\ leads_pc = "report"
  /\ report_icons = << >> /\ report_pc = "call"
  /\ ScoreIdle /\ ValidateIdle /\ VerifyIdle /\ GrokIdle
  /\ ClientIdle /\ TranslateIdle /\ ChromeIdle

\* generate_report(high_value_leads, opportunities, report_file)
GenerateReport ==
  /\ report_pc = "call"
  /\ report_icons' = ReportIcons(high_value_leads)
  /\ report_pc' = "written"
  /\ UNCHANGED << score_vars, leads_vars, validate_vars, verify_vars,
                  grok_vars, client_vars, translate_vars, chrome_vars >>

NextReport == GenerateReport

SpecReport == InitReport /\ [][NextReport]_vars

---------------------------------------------------------------------------
(* Properties of the scorer, checked under SpecScore.                      *)

\* text = (title + content).lower() of the item being scored
ItemText == Lower(title \o description)

\* The four category tests of lines 118, 123, 128 and 133-134 on that text.
MoneyMatched == AnyKeyword(MONEY_KEYWORDS, ItemText)
PainMatched == AnyKeyword(PAIN_KEYWORDS, ItemText)
UrgencyMatched == AnyKeyword(DESPERATION_KEYWORDS, ItemText)
TechMatched == \E k \in 1..Len(TECH_KEYWORDS) :
                 Contains(ItemText, Lower(TECH_KEYWORDS[k]))

\* A tag is the tech tag when it starts with the tech prefix.
IsTechTag(tag) == StartsWithAt(tag, TechPrefix, 0)

\* C1: an item yields a Lead if and only if Money, Pain or Urgency matches
\* its text; an item on which only TechMatch matches yields no tags, score 0
\* and no Lead.
C1_LeadIffQualifyingCategory ==
  score_pc = "ret" =>
    /\ (emitted # << >>) <=> (MoneyMatched \/ PainMatched \/ UrgencyMatched)
    /\ (TechMatched /\ ~MoneyMatched /\ ~PainMatched /\ ~UrgencyMatched)
         => (found_tags = << >> /\ score = 0 /\ emitted = << >>)

\* An item on which only TechMatch matches has been scored.
C1_Witness ==
  /\ score_pc = "ret"
  /\ TechMatched /\ ~MoneyMatched /\ ~PainMatched /\ ~UrgencyMatched
  /\ emitted = << >>

\* C2: the score of a qualifying item is 20 for Money + 10 for Pain + 100
\* for Urgency + 30 for TechMatch, plus 50 exactly when TechMatch matched,
\* and nothing else.
C2_ScoreComposition ==
  (score_pc = "ret" /\ (MoneyMatched \/ PainMatched \/ UrgencyMatched)) =>
    /\ score = (IF MoneyMatched THEN 20 ELSE 0)
             + (IF PainMatched THEN 10 ELSE 0)
             + (IF UrgencyMatched THEN 100 ELSE 0)
             + (IF TechMatched THEN 30 ELSE 0)
             + (IF TechMatched THEN 50 ELSE 0)
    /\ Len(emitted) = 1
    /\ emitted[1].desperation_score = score

\* An item matching all four categories has been scored.
C2_Witness ==
  /\ score_pc = "ret"
  /\ MoneyMatched /\ PainMatched /\ UrgencyMatched /\ TechMatched
  /\ score = 210

\* C3: the item "急招兼职爬虫工程师" / "预算5000，Python" yields exactly one
\* Lead, tagged Money, Urgent and the tech tag of Python,爬虫 in this order
\* (no Pain tag), with score 200.
C3_ConcreteScenario ==
  (score_pc = "ret" /\ title = ScenarioTitle /\ description = ScenarioBody) =>
    /\ Len(emitted) = 1
    /\ emitted[1].tags =
         << TagMoney, TagUrgent,
            TechPrefix \o <<"P","y","t","h","o","n",",","u722C","u866B">> >>
    /\ emitted[1].desperation_score = 200

\* The scenario's item has been scored.
C3_Witness ==
  /\ score_pc = "ret" /\ title = ScenarioTitle /\ description = ScenarioBody
  /\ emitted # << >>

\* C4 as stated: every item matching Money and TechMatch scores exactly 100
\* and is tagged exactly Money, Tech.
C4_MoneyTechAlways100 ==
  (score_pc = "ret" /\ MoneyMatched /\ TechMatched) =>
    /\ Len(emitted) = 1
    /\ emitted[1].desperation_score = 100
    /\ emitted[1].tags = << TagMoney, TechTag(TechMatches(ItemText)) >>

\* C4 as amended: every item matching Money and TechMatch and neither Pain
\* nor Urgency scores exactly 100 and is tagged exactly Money, Tech.
C4_MoneyTechOnly100 ==
  (score_pc = "ret" /\ MoneyMatched /\ TechMatched
     /\ ~PainMatched /\ ~UrgencyMatched) =>
    /\ Len(emitted) = 1
    /\ emitted[1].desperation_score = 100
    /\ emitted[1].tags = << TagMoney, TechTag(TechMatches(ItemText)) >>

\* An item matching exactly Money and TechMatch has been scored.
C4_Witness ==
  /\ score_pc = "ret" /\ MoneyMatched /\ TechMatched
  /\ ~PainMatched /\ ~UrgencyMatched
  /\ score = 100

\* C5: every item matching Urgency yields a Lead with score at least 100
\* whose tags contain the Urgent tag.
C5_UrgencyAtLeast100 ==
  (score_pc = "ret" /\ UrgencyMatched) =>
    /\ Len(emitted) = 1
    /\ emitted[1].desperation_score >= 100
    /\ InList(TagUrgent, emitted[1].tags)

\* An item matching Urgency alone has been scored, at exactly 100.
C5_Witness ==
  /\ score_pc = "ret" /\ UrgencyMatched
  /\ ~MoneyMatched /\ ~PainMatched /\ ~TechMatched
  /\ Len(emitted) = 1 /\ score = 100

\* The place of a tag in the fixed category order.
TagRank(tag) ==
  IF tag = TagMoney THEN 1
  ELSE IF tag = TagPain THEN 2
  ELSE IF tag = TagUrgent THEN 3
  ELSE IF IsTechTag(tag) THEN 4
  ELSE 0

\* C7: the tags of every Lead are in the order Money, Pain, Urgent, Tech,
\* each at most once, wherever the keywords stand in the text.
C7_TagOrder ==
  (score_pc = "ret" /\ emitted # << >>) =>
    /\ \A k \in 1..Len(emitted[1].tags) : TagRank(emitted[1].tags[k]) > 0
    /\ \A i, j \in 1..Len(emitted[1].tags) :
         i < j => TagRank(emitted[1].tags[i]) < TagRank(emitted[1].tags[j])

\* A Lead with all four tags whose text has the tech keyword first, the
\* pain/urgency keyword next and the money keyword last.
C7_Witness ==
  /\ score_pc = "ret"
  /\ title = <<"P","y","t","h","o","n">> \o <<"u6551","u547D">>
  /\ description = <<"u5916","u5305">>
  /\ Len(emitted) = 1 /\ Len(emitted[1].tags) = 4

---------------------------------------------------------------------------
(* Properties of fetch_leads and the hit list, checked under SpecLeads.    *)

\* Leads sorted by score, high to low.
SortedDesc(leads) ==
  \A i, j \in 1..Len(leads) :
    i < j => leads[i].desperation_score >= leads[j].desperation_score

\* The leads of a given score, in the order they stand in the list.
WithScore(leads, v) == SelectSeq(leads, LAMBDA l : l.desperation_score = v)

ScoresOf(leads) == { leads[k].desperation_score : k \in 1..Len(leads) }

\* C6: every Lead fetch_leads returns, and every lead of the hit list, has
\* a score above 0 and at least one tag.
C6_LeadsScorePositive ==
  /\ \A k \in 1..Len(all_leads) :
       all_leads[k].desperation_score > 0 /\ all_leads[k].tags # << >>
  /\ \A k \in 1..Len(high_value_leads) :
       /\ high_value_leads[k].desperation_score > 0
       /\ high_value_leads[k].tags # << >>

\* The feeds held an item that scores 0 beside items that became Leads.
C6_Witness ==
  /\ leads_pc = "report"
  /\ feeds[1].kind = "ok" /\ Len(feeds[1].items) = 3
  /\ feeds[1].items[2] = Item(NoText, NoText, NoText)
  /\ Len(all_leads) = 2 /\ Len(high_value_leads) = 2

\* C8: the list fetch_leads returns is sorted by score, high to low; Leads
\* of equal score keep the order in which their items were read; the list
\* holds exactly the Leads collected, none added or lost.  The hit list
\* keeps that order.
C8_SortedStable ==
  /\ leads_pc = "returned" =>
       LET read == CollectLeads(feeds, days)
       IN  /\ SortedDesc(all_leads)
           /\ Len(all_leads) = Len(read)
           /\ \A v \in ScoresOf(all_leads) \cup ScoresOf(read) :
                WithScore(all_leads, v) = WithScore(read, v)
  /\ leads_pc = "report" =>
       high_value_leads = Truncate(all_leads, limit)

\* Three Leads were read, two of equal score from different feeds before a
\* higher one, and the sort moved the higher one to the front.
C8_Witness ==
  /\ leads_pc = "returned"
  /\ Len(all_leads) = 3
  /\ all_leads # CollectLeads(feeds, days)
  /\ all_leads[2].desperation_score = all_leads[3].desperation_score
  /\ all_leads[2].title # all_leads[3].title
  /\ all_leads[2].source # all_leads[3].source

---------------------------------------------------------------------------
(* Properties of validate_grok_report, checked under SpecValidate.         *)

\* [Bad](https://dead.example)
BadLink ==
  <<"[","B","a","d","]","(","h","t","t","p","s",":","/","/","d","e","a","d",".","e","x","a","m","p","l","e",")">>

\* https://dead.example
DeadUrl == <<"h","t","t","p","s",":","/","/","d","e","a","d",".","e","x","a","m","p","l","e">>

\* The call was made on the single link [Bad](https://dead.example), whose
\* liveness check returns False, and has returned.
BadLinkValidated ==
  /\ validate_pc = "ret"
  /\ markdown_content = BadLink
  /\ DeadUrl \notin live

\* C9 as stated: the result is the link, one space, and the marker
\* "**(⚠️ link verification failed/404)**".
C9_DeadLinkMarkerAsWorded ==
  BadLinkValidated =>
    validated_content =
      BadLink \o <<" ">> \o
      <<"*","*","(","u26A0","uFE0F"," ","l","i","n","k"," ","v","e","r","i","f","i","c","a","t","i","o","n"," ","f","a","i","l","e","d","/","4","0","4",")","*","*">>

\* C9 as amended: the result is the link, unchanged, then one space, then
\* the marker "**(⚠️ 链接验证失败/404)**"; nothing of the link is removed.
C9_DeadLinkMarkerAppended ==
  BadLinkValidated =>
    validated_content =
      BadLink \o <<" ">> \o
      <<"*","*","(","u26A0","uFE0F"," ","u94FE","u63A5","u9A8C","u8BC1","u5931","u8D25","/","4","0","4",")","*","*">>

\* The single dead link was probed once and the call returned.
C9_Witness ==
  /\ BadLinkValidated
  /\ probes = << DeadUrl >>

\* The index of the last character of each match re.findall finds, scanning
\* from the 1-based index i: where each link occurrence of the text ends.
RECURSIVE MatchEndsFrom(_, _)
MatchEndsFrom(s, i) ==
  IF i > Len(s) THEN << >>
  ELSE IF MatchAt(s, i).ok
  THEN << MatchAt(s, i).end >> \o MatchEndsFrom(s, MatchAt(s, i).end + 1)
  ELSE MatchEndsFrom(s, i + 1)

\* n copies of the warning
RECURSIVE Warnings(_)
Warnings(n) == IF n = 0 THEN << >> ELSE WarningSuffix \o Warnings(n - 1)

\* The text s with m[k] warnings put directly after its k-th link
\* occurrence, from occurrence k and index from on.
RECURSIVE WithWarningsFrom(_, _, _, _, _)
WithWarningsFrom(s, ends, m, k, from) ==
  IF k > Len(ends) THEN SubSeq(s, from, Len(s))
  ELSE SubSeq(s, from, ends[k]) \o Warnings(m[k])
       \o WithWarningsFrom(s, ends, m, k + 1, ends[k] + 1)

WithWarnings(s, m) == WithWarningsFrom(s, MatchEndsFrom(s, 1), m, 1, 1)

\* The k-th link found was skipped or reported live.
FoundLive(k) == Skipped(matches[k][2]) \/ matches[k][2] \in live

\* C10: when every link that is found and not skipped is reported live, the
\* result equals the input; and in general the result is the input with
\* warnings put after link occurrences, none of them after an occurrence
\* whose pair was found live.
C10_LiveLinksUntouched ==
  validate_pc = "ret" =>
    /\ (\A k \in 1..Len(matches) : FoundLive(k))
         => validated_content = markdown_content
    /\ \E m \in [1..Len(matches) -> 0..Len(matches)] :
         /\ \A k \in 1..Len(matches) : FoundLive(k) => m[k] = 0
         /\ validated_content = WithWarnings(markdown_content, m)

\* The first half of C10 alone, which the code satisfies: with every probed
\* link live the result equals the input.
AllLiveUnchanged ==
  (validate_pc = "ret" /\ \A k \in 1..Len(matches) : FoundLive(k))
    => validated_content = markdown_content

---------------------------------------------------------------------------
(* Properties of verify_link, checked under SpecVerify.                    *)

\* C16: verify_link always returns a boolean and never raises; it returns
\* True only if the last response it observed has status 200; when the last
\* request it sent answered 404 or failed (timeout, DNS failure, connection
\* error, malformed URL) it returns False.
C16_VerifyLinkResult ==
  verify_pc = "ret" =>
    /\ is_valid \in { "True", "False" }
    /\ is_valid = "True" =>
         response.kind = "response" /\ response.status_code = 200
    /\ (response.kind = "response" /\ response.status_code = 404)
         => is_valid = "False"
    /\ response.kind = "raised" => is_valid = "False"
    /\ \A k \in 1..Len(requests) :
         LET o == IF requests[k] = "HEAD" THEN head_outcome ELSE get_outcome
         IN  (o.kind = "raised" \/ o.status_code = 404) => is_valid = "False"

\* The HEAD request was answered 405, the GET request then timed out, and
\* verify_link returned False.
C16_Witness ==
  /\ verify_pc = "ret"
  /\ requests = << "HEAD", "GET" >>
  /\ head_outcome = Response(405)
  /\ get_outcome = Raised("timeout")
  /\ is_valid = "False"

\* The HEAD request was answered with the given status.
HeadAnswered(status_code) ==
  head_outcome.kind = "response" /\ head_outcome.status_code = status_code

\* The first request sent is a HEAD, and at most one GET follows it.
HeadFirstThenAtMostOneGet ==
  /\ verify_pc # "call" => requests # << >> /\ requests[1] = "HEAD"
  /\ requests \in { << >>, << "HEAD" >>, << "HEAD", "GET" >> }

\* C23 as stated: HEAD goes first; HEAD 200 gives True and HEAD 404 gives
\* False, both without a GET; a GET is sent only after a HEAD answered 405
\* (method not allowed), at most once, and the result is then
\* (GET status = 200).
C23_GetOnlyAfterMethodNotAllowed ==
  /\ HeadFirstThenAtMostOneGet
  /\ verify_pc = "ret" =>
       /\ HeadAnswered(200) => is_valid = "True" /\ requests = << "HEAD" >>
       /\ HeadAnswered(404) => is_valid = "False" /\ requests = << "HEAD" >>
       /\ InList("GET", requests) => HeadAnswered(405)
       /\ InList("GET", requests) =>
            is_valid = VerifyResult(get_outcome)

\* C23 as amended: HEAD goes first; HEAD 200 gives True and HEAD 404 gives
\* False, both without a GET; a HEAD that raises gives False without a
\* GET; a GET is sent, once, exactly when the HEAD was answered with any
\* other status (403, 405, 500, ...), and the result is then
\* (GET status = 200), False when the GET raises.
C23_GetAfterAnyOtherStatus ==
  /\ HeadFirstThenAtMostOneGet
  /\ verify_pc = "ret" =>
       /\ HeadAnswered(200) => is_valid = "True" /\ requests = << "HEAD" >>
       /\ HeadAnswered(404) => is_valid = "False" /\ requests = << "HEAD" >>
       /\ head_outcome.kind = "raised" =>
            is_valid = "False" /\ requests = << "HEAD" >>
       /\ InList("GET", requests) <=>
            (head_outcome.kind = "response"
               /\ head_outcome.status_code \notin { 200, 404 })
       /\ InList("GET", requests) =>
            is_valid = (IF get_outcome.kind = "response"
                           /\ get_outcome.status_code = 200
                        THEN "True" ELSE "False")

\* The HEAD request was answered 403 (forbidden, not a rejected method),
\* the GET request that followed was answered 200, and verify_link
\* returned True.
C23_Witness ==
  /\ verify_pc = "ret"
  /\ requests = << "HEAD", "GET" >>
  /\ head_outcome = Response(403)
  /\ get_outcome = Response(200)
  /\ is_valid = "True"

---------------------------------------------------------------------------
(* More properties of validate_grok_report, checked under SpecValidate.    *)

\* The call returns what the loop of lines 120-134 computes.
ReturnsValidateGrokReport ==
  validate_pc = "ret" =>
    validated_content = ValidateGrokReport(markdown_content, live)

\* The host of an http(s) URL: what stands between "://" and the first of
\* "/", "?", "#", ":" after it.
HostOf(url) ==
  LET from == SchemeLen(url, 1) + 1
      stops == { k \in from..Len(url) : url[k] \in { "/", "?", "#", ":" } }
      to == IF stops = {} THEN Len(url)
            ELSE (CHOOSE k \in stops : \A m \in stops : k <= m) - 1
  IN  SubSeq(url, from, to)

\* The k-th link found has one of the skip domains as its host.
OnSkipHost(k) == InList(HostOf(matches[k][2]), skip_domains)

\* C11: no link whose host is a skip domain is probed, and the result is
\* the input with warnings put after link occurrences, none of them after
\* an occurrence whose host is a skip domain.
C11_SkipHostExempt ==
  validate_pc = "ret" =>
    /\ \A k \in 1..Len(matches) :
         OnSkipHost(k) => ~InList(matches[k][2], probes)
    /\ \E m \in [1..Len(matches) -> 0..Len(matches)] :
         /\ \A k \in 1..Len(matches) : OnSkipHost(k) => m[k] = 0
         /\ validated_content = WithWarnings(markdown_content, m)

\* The part of C11 the code satisfies: a link whose host is a skip domain
\* is never probed.
SkipHostNeverProbed ==
  \A k \in 1..Len(matches) :
    OnSkipHost(k) => ~InList(matches[k][2], probes)

\* The text holds a link: link_pattern matches somewhere in it.
HasLink(s) == \E i \in 1..Len(s) : MatchAt(s, i).ok

\* C12: on a text without any link the call returns its argument unchanged
\* and probes nothing, and so does a second call on the result.
C12_LinkFreeIdentity ==
  (validate_pc = "ret" /\ ~HasLink(markdown_content)) =>
    /\ validated_content = markdown_content
    /\ probes = << >>
    /\ ValidateGrokReport(validated_content, live) = validated_content

\* The call returned on a text without links that is not empty and holds a
\* bracketed text followed by a parenthesis (not an http(s) URL).
C12_Witness ==
  /\ validate_pc = "ret"
  /\ ~HasLink(markdown_content)
  /\ \E i \in 1..Len(markdown_content) : markdown_content[i] = "["
  /\ validated_content = markdown_content

\* The k-th link found is not live and its (title, url) pair is found at
\* another place too.
DuplicateDead(k) ==
  /\ ~FoundLive(k)
  /\ \E j \in 1..Len(matches) : j # k /\ matches[j] = matches[k]

\* C13: the result is the input with warnings put after link occurrences,
\* exactly one of them after each occurrence of a dead pair that occurs
\* twice or more.
C13_DuplicateDeadMarkedOnce ==
  validate_pc = "ret" =>
    \E m \in [1..Len(matches) -> 0..Len(matches)] :
      /\ \A k \in 1..Len(matches) : DuplicateDead(k) => m[k] = 1
      /\ validated_content = WithWarnings(markdown_content, m)

\* How often u occurs in the sequence q.
Count(q, u) == Cardinality({ k \in 1..Len(q) : q[k] = u })

\* C14 as stated: every URL found that is not skipped is probed exactly
\* once, however often it occurs, and no skipped URL is probed.
C14_ProbePerDistinctUrl ==
  validate_pc = "ret" =>
    \A u \in UrlsOf(markdown_content) :
      Count(probes, u) = IF Skipped(u) THEN 0 ELSE 1

\* C14 as amended: verify_link is called once per link occurrence that is
\* not skipped, in the order of the occurrences; a URL found n times is
\* probed n times.
C14_ProbePerOccurrence ==
  validate_pc = "ret" =>
    /\ probes = SelectSeq([k \in 1..Len(matches) |-> matches[k][2]],
                          LAMBDA u : ~Skipped(u))
    /\ \A u \in UrlsOf(markdown_content) :
         Count(probes, u) =
           IF Skipped(u) THEN 0
           ELSE Count([k \in 1..Len(matches) |-> matches[k][2]], u)

\* The call returned after probing the same URL twice.
C14_Witness ==
  /\ validate_pc = "ret"
  /\ Len(matches) = 2
  /\ matches[1][2] = matches[2][2]
  /\ probes = << matches[1][2], matches[2][2] >>

\* The k-th link found has a skip domain somewhere in its host.
SkipInHost(k) ==
  \E d \in 1..Len(skip_domains) :
    Contains(HostOf(matches[k][2]), skip_domains[d])

\* C21: a link found is exempted from the liveness check only if its host
\* contains a skip domain; a link whose host contains none is probed, even
\* when a skip domain stands in its path or query string.
C21_SkipOnlyOnHost ==
  validate_pc = "ret" =>
    \A k \in 1..Len(matches) :
      ~SkipInHost(k) => InList(matches[k][2], probes)

\* The part of C21 the code satisfies: a link with a skip domain in its
\* host is exempted, and a link without any skip domain in its URL is
\* probed.
SkipDecisionOnWholeUrl ==
  validate_pc = "ret" =>
    \A k \in 1..Len(matches) :
      /\ SkipInHost(k) => ~InList(matches[k][2], probes)
      /\ ~Skipped(matches[k][2]) => InList(matches[k][2], probes)

\* The matches taken in the order p, a permutation of their indices.
InOrder(ms, p) == [k \in 1..Len(ms) |-> ms[p[k]]]

\* The permutations of 1..n
Permutations1(n) ==
  { p \in [1..n -> 1..n] : \A i, j \in 1..n : p[i] = p[j] => i = j }

\* The 0-based offsets at which the text p occurs in s.
Occurrences(s, p) == { i \in 0..(Len(s) - Len(p)) : StartsWithAt(s, p, i) }

\* The text of the k-th link found.
Literal(k) == OldLink(matches[k][1], matches[k][2])

\* Somewhere in the input an occurrence of the text of the j-th link found
\* begins inside an occurrence of the text of the k-th and ends after it.
PartlyOverlap(k, j) ==
  \E a \in Occurrences(markdown_content, Literal(k)),
     b \in Occurrences(markdown_content, Literal(j)) :
    /\ a < b /\ b < a + Len(Literal(k))
    /\ a + Len(Literal(k)) < b + Len(Literal(j))

\* No two links found dead have texts that partly overlap in the input.
DeadLiteralsNested ==
  \A k, j \in 1..Len(matches) :
    (~FoundLive(k) /\ ~FoundLive(j)) => ~PartlyOverlap(k, j)

\* Every order of the links found gives the text that was returned.
OrderIndependent ==
  \A p \in Permutations1(Len(matches)) :
    ValidateLoop(markdown_content, InOrder(matches, p), 1, live)
      = validated_content

C15_RevalidationAddsNothing ==
  validate_pc = "ret" =>
    ValidateGrokReport(validated_content, live) = validated_content

---------------------------------------------------------------------------
(* Properties of the callers of fetch_grok_intel, checked under SpecGrok.  *)

\* C17: once a caller has handled a returned text that contains "Error",
\* nothing was handed to the link validation, nothing was kept and nothing
\* was written into a report.
C17_ErrorTextDiscarded ==
  (grok_pc \notin { "idle", "call" } /\ Contains(grok_report, ErrorToken)) =>
    /\ validator_input = None
    /\ stored = None
    /\ written = None

\* The part of C17 the code satisfies: the three callers that test for
\* "Error" discard such a text.
ErrorDiscardedWhereTested ==
  (/\ grok_pc \in { "fetch_all_sources", "grok_review",
                    "summarize_posts_with_grok" }
   /\ Contains(grok_report, ErrorToken)) =>
    /\ validator_input = None
    /\ stored = None
    /\ written = None

---------------------------------------------------------------------------
(* Properties of _clean_summary, checked under SpecSummary.                *)

\* The body of the item with the matches of '<[^<]+?>' removed.
StrippedBody == StripTagsFrom(description, 1)

\* C18 as stated: the summary of every Lead has at most 200 characters.
C18_SummaryAtMost200 ==
  score_pc = "ret" =>
    \A k \in 1..Len(emitted) : Len(emitted[k].summary) <= SummaryLimit

\* C18 as amended: the summary of a Lead is the body with the HTML tags
\* removed when that has at most 200 characters, else its first 200
\* characters followed by "..."; so it has at most 203 characters.
C18_SummaryCutWithEllipsis ==
  score_pc = "ret" =>
    \A k \in 1..Len(emitted) :
      /\ Len(emitted[k].summary) <= SummaryLimit + 3
      /\ Len(StrippedBody) <= SummaryLimit
           => emitted[k].summary = StrippedBody
      /\ Len(StrippedBody) > SummaryLimit
           => /\ Len(emitted[k].summary) = SummaryLimit + 3
              /\ SubSeq(emitted[k].summary, 1, SummaryLimit)
                   = SubSeq(StrippedBody, 1, SummaryLimit)
              /\ SubSeq(emitted[k].summary, SummaryLimit + 1,
                        SummaryLimit + 3) = <<".", ".", ".">>

\* A Lead whose body held a tag and, the tag removed, 201 characters: its
\* summary has 203.
C18_Witness ==
  /\ score_pc = "ret"
  /\ Len(emitted) = 1
  /\ Len(description) > Len(StrippedBody)
  /\ Len(StrippedBody) = SummaryLimit + 1
  /\ Len(emitted[1].summary) = SummaryLimit + 3

---------------------------------------------------------------------------
(* Failure semantics of the scoring, checked under SpecLeads.              *)

\* The leads of the items of one feed when every item is scored, an element
\* that is absent or without text being read as the empty string.
RECURSIVE EveryItemLeads(_, _, _)
EveryItemLeads(category, items, d) ==
  IF items = << >> THEN << >>
  ELSE LET item == Head(items)
       IN  (IF TooOld(TextOrEmpty(item.pubDate), d) THEN << >>
            ELSE LeadsOf(category, TextOrEmpty(item.title),
                         TextOrEmpty(item.link),
                         TextOrEmpty(item.description),
                         TextOrEmpty(item.pubDate)))
           \o EveryItemLeads(category, Tail(items), d)

\* The same for a feed: a feed that could not be read has no items.
EveryFeedLeads(category, feed, d) ==
  IF feed.kind = "ok" THEN EveryItemLeads(category, feed.items, d) ELSE << >>

\* Some item of the feed lacks one of its four elements.
LacksElement(feed) ==
  /\ feed.kind = "ok"
  /\ \E k \in 1..Len(feed.items) :
       \/ feed.items[k].title = Absent \/ feed.items[k].link = Absent
       \/ feed.items[k].description = Absent
       \/ feed.items[k].pubDate = Absent

\* C19: fetch_leads returns the leads of all items of the feeds it could
\* read, an empty or missing title or body being read as the empty string
\* and every remaining item being scored.
C19_MissingReadAsEmpty ==
  leads_pc = "returned" =>
    all_leads = SortDesc(EveryFeedLeads(CategoryGlobal, feeds[1], days)
                         \o EveryFeedLeads(CategoryJobs, feeds[2], days))

\* The part of C19 the code satisfies: when every item has its four
\* elements, with or without text, every item is scored.
ElementsWithoutTextReadAsEmpty ==
  (leads_pc = "returned" /\ ~LacksElement(feeds[1]) /\ ~LacksElement(feeds[2]))
    => all_leads = SortDesc(EveryFeedLeads(CategoryGlobal, feeds[1], days)
                            \o EveryFeedLeads(CategoryJobs, feeds[2], days))

\* The item lacks one of its four elements.
ItemLacksElement(item) ==
  \/ item.title = Absent \/ item.link = Absent
  \/ item.description = Absent \/ item.pubDate = Absent

\* The items of a feed read before the failure: none when the request or
\* the XML parse failed, else those before the first item lacking one of
\* its elements.
ReadBeforeFailure(feed) ==
  IF feed.kind # "ok" THEN << >>
  ELSE LET bad == { k \in 1..Len(feed.items) :
                      ItemLacksElement(feed.items[k]) }
       IN  IF bad = {} THEN feed.items
           ELSE SubSeq(feed.items, 1,
                       (CHOOSE k \in bad : \A m \in bad : k <= m) - 1)

\* C24: whatever fails in a feed, fetch_leads returns a list sorted by
\* descending score that holds the leads of every item read before the
\* failure in that feed, and the leads of the other feed as if nothing had
\* failed.
C24_FeedFailureIsolated ==
  leads_pc = "returned" =>
    LET kept == EveryItemLeads(CategoryGlobal,
                               ReadBeforeFailure(feeds[1]), days)
                \o EveryItemLeads(CategoryJobs,
                                  ReadBeforeFailure(feeds[2]), days)
    IN  /\ SortedDesc(all_leads)
        /\ Len(all_leads) = Len(kept)
        /\ \A v \in ScoresOf(all_leads) \cup ScoresOf(kept) :
             WithScore(all_leads, v) = WithScore(kept, v)

\* The first feed gave a lead and then failed on an item without a title,
\* and fetch_leads returned that lead together with one of the second
\* feed.
C24_Witness ==
  /\ leads_pc = "returned"
  /\ LacksElement(feeds[1])
  /\ ReadBeforeFailure(feeds[1]) # << >>
  /\ feeds[2].kind = "ok" /\ ~LacksElement(feeds[2])
  /\ \E i, j \in 1..Len(all_leads) :
       /\ all_leads[i].source = SourceOf(CategoryGlobal)
       /\ all_leads[j].source = SourceOf(CategoryJobs)

\* Both feeds fail before any item is read and fetch_leads returns the
\* empty list.
BothFeedsFailReturnsEmpty ==
  (leads_pc = "returned" /\ feeds[1].kind # "ok" /\ feeds[2].kind # "ok")
    => all_leads = << >>

---------------------------------------------------------------------------
(* The keyword tables, checked under SpecScore.                            *)

SetOf(table) == { table[k] : k \in 1..Len(table) }

\* The keywords of the four tables that occur in the item's text.
MatchingKeywords ==
  LET text == ItemText
  IN  { kw \in SetOf(MONEY_KEYWORDS) \cup SetOf(PAIN_KEYWORDS)
               \cup SetOf(DESPERATION_KEYWORDS) \cup SetOf(TECH_KEYWORDS) :
          Contains(text, Lower(kw)) }

\* C20 as stated: the four tables are pairwise disjoint, and an item all of
\* whose matching keywords are Money keywords, or all Pain keywords, does
\* not get the Urgent tag.
C20_CategoriesDisjoint ==
  /\ SetOf(MONEY_KEYWORDS) \cap SetOf(PAIN_KEYWORDS) = {}
  /\ SetOf(MONEY_KEYWORDS) \cap SetOf(DESPERATION_KEYWORDS) = {}
  /\ SetOf(MONEY_KEYWORDS) \cap SetOf(TECH_KEYWORDS) = {}
  /\ SetOf(PAIN_KEYWORDS) \cap SetOf(DESPERATION_KEYWORDS) = {}
  /\ SetOf(PAIN_KEYWORDS) \cap SetOf(TECH_KEYWORDS) = {}
  /\ SetOf(DESPERATION_KEYWORDS) \cap SetOf(TECH_KEYWORDS) = {}
  /\ score_pc = "ret" =>
       LET found == MatchingKeywords
       IN  (/\ found # {}
            /\ \/ found \subseteq SetOf(MONEY_KEYWORDS)
               \/ found \subseteq SetOf(PAIN_KEYWORDS))
             => ~InList(TagUrgent, found_tags)

\* C20 as amended: Money and Urgency share 急 and 有偿, Pain and Urgency
\* share 救命 and 崩溃, every other pair of tables is disjoint; an item whose
\* text holds 急 gets both Money and Urgent, one whose text holds 救命 both
\* Pain and Urgent; and an item all of whose matching keywords are Money
\* (or Pain) keywords outside the Urgency table does not get Urgent.
C20_CategoriesOverlap ==
  /\ SetOf(MONEY_KEYWORDS) \cap SetOf(DESPERATION_KEYWORDS)
       = { <<"u6025">>, <<"u6709","u507F">> }
  /\ SetOf(PAIN_KEYWORDS) \cap SetOf(DESPERATION_KEYWORDS)
       = { <<"u6551","u547D">>, <<"u5D29","u6E83">> }
  /\ SetOf(MONEY_KEYWORDS) \cap SetOf(PAIN_KEYWORDS) = {}
  /\ SetOf(MONEY_KEYWORDS) \cap SetOf(TECH_KEYWORDS) = {}
  /\ SetOf(PAIN_KEYWORDS) \cap SetOf(TECH_KEYWORDS) = {}
  /\ SetOf(DESPERATION_KEYWORDS) \cap SetOf(TECH_KEYWORDS) = {}
  /\ score_pc = "ret" =>
       /\ Contains(ItemText, <<"u6025">>)
            => InList(TagMoney, found_tags) /\ InList(TagUrgent, found_tags)
       /\ Contains(ItemText, <<"u6551","u547D">>)
            => InList(TagPain, found_tags) /\ InList(TagUrgent, found_tags)
       /\ LET found == MatchingKeywords
          IN  (/\ found # {}
               /\ found \cap SetOf(DESPERATION_KEYWORDS) = {}
               /\ \/ found \subseteq SetOf(MONEY_KEYWORDS)
                  \/ found \subseteq SetOf(PAIN_KEYWORDS))
                => ~InList(TagUrgent, found_tags)

\* The item 急 (nothing else) was scored: its one keyword gave it the tags
\* Money and Urgent and the score 120.
C20_Witness ==
  /\ score_pc = "ret"
  /\ title = <<"u6025">> /\ description = << >>
  /\ MatchingKeywords = { <<"u6025">> }
  /\ found_tags = << TagMoney, TagUrgent >>
  /\ score = MoneyWeight + UrgentWeight

---------------------------------------------------------------------------
(* Properties of fetch_grok_intel, checked under SpecClient.               *)

\* The call failed in one of the ways the except clauses and the key test
\* handle: no key, a request that raised, an error status, or a body from
\* which no content can be read.
HandledFailure ==
  \/ KeyMissing(XAI_API_KEY)
  \/ post_outcome.kind = "raised"
  \/ RaisesForStatus(post_outcome.status_code)
  \/ post_outcome.body.shape \in { "not_json", "no_choices", "empty_choices" }

\* The call failed: as above, or the body holds no content string.
ClientFailed ==
  \/ HandledFailure
  \/ post_outcome.body.shape = "content_null"

\* C25: on every failure path fetch_grok_intel returns a string that
\* contains "Error".
C25_FailureCarriesError ==
  (client_pc = "ret" /\ ClientFailed) =>
    client_result # None /\ Contains(client_result, ErrorToken)

\* The part of C25 the code satisfies: a missing key, a request that
\* raised, an error status and a body that is not JSON or lacks the path
\* to the content all give a string that contains "Error".
HandledFailureCarriesError ==
  (client_pc = "ret" /\ HandledFailure) =>
    client_result # None /\ Contains(client_result, ErrorToken)

---------------------------------------------------------------------------
(* Properties of translate_to_chinese, checked under SpecTranslate.        *)

\* The call was made with a key and a text of at least 10 characters.
TranslationTried ==
  /\ GEMINI_API_KEY # None /\ GEMINI_API_KEY # << >>
  /\ Len(source_text) >= MinLength

\* The attempts that deliver a translation.
Delivering == { k \in 1..max_retries : Delivers(api_outcomes[k]) }

\* The first of them.
FirstDelivering == CHOOSE k \in Delivering : \A m \in Delivering : k <= m

\* At most three attempts are made, the call returns the first translation
\* that is not empty, made at the attempt that delivered it, and without
\* one it returns the given fallback after the third attempt.
RetriesThenReturns(fallback) ==
  /\ attempt <= max_retries
  /\ translate_pc = "loop" =>
       \A k \in 1..attempt : ~Delivers(api_outcomes[k])
  /\ translate_pc = "ret" =>
       IF Delivering # {}
       THEN /\ attempt = FirstDelivering
            /\ translated = Strip(api_outcomes[FirstDelivering].result)
       ELSE /\ attempt = max_retries
            /\ translated = fallback

\* C26: with a key and a text of at least 10 characters the call makes at
\* most 3 attempts, returns the first translation that is not empty,
\* retries only after an exception or an empty result, and after the
\* third attempt without a translation returns the original text.
C26_FallbackIsOriginalText ==
  TranslationTried => RetriesThenReturns(source_text)

\* The part of C26 the code satisfies: the same with the fallback being
\* the text cut to max_chars characters and "..." when it is longer.
FallbackIsBrief ==
  TranslationTried => RetriesThenReturns(Brief(source_text, max_chars))

---------------------------------------------------------------------------
(* Properties of scan_opportunities, checked under SpecChrome.             *)

\* For a limit of at least 1 the list returned has at most limit entries.
AtMostLimit ==
  (chrome_pc = "ret" /\ scan_limit >= 1) => Len(opportunities) <= scan_limit

\* C27: every opportunity returned has more than 5000 users and a rating
\* below 3.8, and for limit >= 1 the list has at most limit entries.
C27_StrictThresholds ==
  /\ chrome_pc = "ret" =>
       \A k \in 1..Len(opportunities) :
         /\ opportunities[k].user_count_val > MIN_USERS
         /\ opportunities[k].rating < MAX_RATING
  /\ AtMostLimit

\* The part of C27 the code satisfies: every opportunity returned has at
\* least 5000 users and a rating of at most 3.8, and for limit >= 1 the
\* list has at most limit entries.
InclusiveThresholds ==
  /\ chrome_pc = "ret" =>
       \A k \in 1..Len(opportunities) :
         /\ opportunities[k].user_count_val >= MIN_USERS
         /\ opportunities[k].rating <= MAX_RATING
  /\ AtMostLimit

---------------------------------------------------------------------------
(* Properties of run_alpha_scan's link rewrite, checked under SpecGrok.    *)

\* The text s with the marker put directly after each link occurrence
\* whose URL is not live, from occurrence k and index from on; ms are the
\* links found in s and ends the indices of their last characters.
RECURSIVE MarkedFrom(_, _, _, _, _, _, _)
MarkedFrom(s, ms, ends, lv, marker, k, from) ==
  IF k > Len(ends) THEN SubSeq(s, from, Len(s))
  ELSE SubSeq(s, from, ends[k])
       \o (IF ms[k][2] \in lv THEN << >> ELSE marker)
       \o MarkedFrom(s, ms, ends, lv, marker, k + 1, ends[k] + 1)

\* C28: run_alpha_scan probes the URL of every link occurrence once, left
\* to right, skip domains included, and writes the text with exactly one
\* marker after each occurrence whose probe failed and nothing else
\* changed.
C28_SinglePassRewrite ==
  grok_pc = "run_alpha_scan" =>
    LET ms == FindAll(grok_report)
    IN  /\ Len(probes) = Len(ms)
        /\ \A k \in 1..Len(ms) : probes[k] = ms[k][2]
        /\ written = MarkedFrom(grok_report, ms, MatchEndsFrom(grok_report, 1),
                                live, AlphaWarningSuffix, 1, 1)

\* run_alpha_scan ran on the same dead link written twice and put one
\* marker after each.
C28_Witness ==
  /\ grok_pc = "run_alpha_scan"
  /\ grok_report = BadLink \o BadLink
  /\ DeadUrl \notin live
  /\ probes = << DeadUrl, DeadUrl >>
  /\ written = BadLink \o AlphaWarningSuffix \o BadLink \o AlphaWarningSuffix

---------------------------------------------------------------------------
(* Properties of the hit list's icons, checked under SpecReport.           *)

\* The lead carries a tech tag.
HasTech(lead) == \E k \in 1..Len(lead.tags) : IsTechTag(lead.tags[k])

\* C29: a lead gets the fire icon if and only if it carries the Urgent tag
\* or both the Money tag and a Tech tag; the warning icon if and only if
\* its tags are exactly Pain and Tech; the briefcase icon otherwise.
C29_UrgencyIcon ==
  report_pc = "written" =>
    /\ Len(report_icons) = Len(high_value_leads)
    /\ \A k \in 1..Len(high_value_leads) :
         LET lead == high_value_leads[k]
             fire == \/ InList(TagUrgent, lead.tags)
                     \/ (InList(TagMoney, lead.tags) /\ HasTech(lead))
             warning == /\ Len(lead.tags) = 2
                        /\ lead.tags[1] = TagPain
                        /\ IsTechTag(lead.tags[2])
         IN  /\ report_icons[k] = IconFire <=> fire
             /\ report_icons[k] = IconWarning <=> warning
             /\ report_icons[k] = IconBriefcase <=> (~fire /\ ~warning)

\* The report was written for a lead tagged Money and Tech only, scored
\* exactly 100 and shown with the fire icon, and a lead tagged Pain and
\* Tech, shown with the warning icon.
C29_Witness ==
  /\ report_pc = "written"
  /\ Len(high_value_leads) = 2
  /\ Len(high_value_leads[1].tags) = 2
  /\ high_value_leads[1].tags[1] = TagMoney
  /\ high_value_leads[1].desperation_score = FireScore
  /\ report_icons[1] = IconFire
  /\ high_value_leads[2].tags[1] = TagPain
  /\ report_icons[2] = IconWarning

---------------------------------------------------------------------------
(* Properties of the age filter of fetch_leads, checked under SpecAge.     *)

\* The category of the k-th feed, in RSS_FEEDS order.
CategoryOf(f) == IF f = 1 THEN CategoryGlobal ELSE CategoryJobs

\* The lead the item would give when scored, its date read as the empty
\* string when missing (none when the item has no keyword).
LeadIfScored(f, item) ==
  LeadsOf(CategoryOf(f), TextOrEmpty(item.title), TextOrEmpty(item.link),
          TextOrEmpty(item.description), TextOrEmpty(item.pubDate))

\* The item's date parses and lies more than `days` whole days back.
DateTooOld(item) ==
  /\ DateParses(TextOrEmpty(item.pubDate))
  /\ AgeDays(TextOrEmpty(item.pubDate)) > days

\* Every item of the feeds that would give a lead has it in the list
\* returned exactly when its date does not both parse and lie more than
\* `days` days back.
SkippedIffOld(fs) ==
  \A f \in 1..2 : \A k \in 1..Len(fs[f].items) :
    LET item == fs[f].items[k]
        lead == LeadIfScored(f, item)
    IN  lead # << >> => (InList(lead[1], all_leads) <=> ~DateTooOld(item))

\* C30: an item is skipped before scoring if and only if its date parses
\* and its age in whole days exceeds `days`; an item whose date is missing
\* or does not parse is scored like any other.
C30_AgeFilter ==
  leads_pc = "returned" => SkippedIffOld(feeds)

\* The part of C30 the code satisfies: the same for feeds in which every
\* item has its pubDate element (and the other three), with or without
\* text.
AgeFilterOnCompleteItems ==
  (leads_pc = "returned" /\ ~LacksElement(feeds[1]) /\ ~LacksElement(feeds[2]))
    => SkippedIffOld(feeds)

=============================================================================
